---- MODULE Spec2Model ----
(***************************************************************************)
(* A model of the external-memory key-value collator                       *)
(* (include/Key_Value_Collator.hpp, include/Key_Value_Iterator.hpp).       *)
(*                                                                         *)
(* Spec        : the deposit phase. Producers, the mapper thread and the   *)
(*               thread calling close_deposit_stream, interleaved at the   *)
(*               granularity of the Object_Pool's lock and atomic counter. *)
(***************************************************************************)
EXTENDS Integers, Sequences, FiniteSets, TLC

\* ------------------------------------------------------------------ bounds
\* partition_count is (1 << 9) in the source; the model uses 1 << LogP.
LogP == 1
\* Keys are 0..MaxKey, values are 0..MaxVal; the values the producers of the
\* deposit phase draw are 0..MaxDepositVal.
MaxKey == 2
MaxVal == 1
MaxDepositVal == 0
\* A producer puts at most MaxBufLen pairs into a staging buffer.
MaxBufLen == 2
\* The constructor's buf_count ranges over 1..MaxBufCount.
MaxBufCount == 2
\* Number of producer threads, and deposits each of them makes at most.
NumProducers == 2
MaxDeposits == 1
\* partition_buf_elem_th is 1 MiB / sizeof(pair) in the source; scaled down.
partition_buf_elem_th == 2

\* --------------------------------------------------------------- constants
partition_count == 2 ^ LogP

Keys == 0 .. MaxKey
Vals == 0 .. MaxVal
\* key_val_pair_t: std::pair<T_key_, T_val_>
key_val_pair_t == Keys \X Vals
Partitions == 0 .. (partition_count - 1)

\* A null pointer; the staging buffers' handles are 1..buf_count.
nullptr == 0
Mapper == 0
Producers == 1 .. NumProducers
Threads == {Mapper} \cup Producers

\* All the contents a producer may give a staging buffer.
DepositPairs == Keys \X (0 .. MaxDepositVal)
BufContents == UNION { [1 .. n -> DepositPairs] : n \in 0 .. MaxBufLen }

\* ----------------------------------------------------------------- helpers
RECURSIVE BitAnd(_, _)
\* a & b on naturals.
BitAnd(a, b) ==
    IF a = 0 \/ b = 0 THEN 0
    ELSE (a % 2) * (b % 2) + 2 * BitAnd(a \div 2, b \div 2)

\* Identity_Functor::operator()
hash(key) == key

get_partition_id_mod_mask(key) == hash(key) % (partition_count - 1)
\* Key_Value_Collator::get_partition_id
get_partition_id(key) == BitAnd(hash(key), partition_count - 1)

\* Number of occurrences of x in the sequence s.
Occ(s, x) == Cardinality({i \in DOMAIN s : s[i] = x})

RECURSIVE Concat(_, _)
\* The concatenation f[0] \o f[1] \o ... \o f[n-1].
Concat(f, n) == IF n = 0 THEN <<>> ELSE Concat(f, n - 1) \o f[n - 1]

pop_back_keeps_element(s) == s
\* std::vector::pop_back
pop_back(s) == SubSeq(s, 1, Len(s) - 1)

map_loop_cond_ignores_full(si, full_count) == si
\* The loop condition of Key_Value_Collator::map
map_loop_cond(si, full_count) == si \/ full_count > 0

file_write_from_start(file, data) == data
\* std::ofstream::write of a whole partition buffer (a successful write).
file_write(file, data) == file \o data

\* ------------------------------------------------------------------- state
VARIABLES
    buf_count,          \* Key_Value_Collator::buf_count
    bufs,               \* the staging buffers (new buf_t()), by handle 1..buf_count
    pool,               \* Object_Pool::pool of the free and of the full pool
    size_,              \* Object_Pool::size_ of each pool
    lock_,              \* Object_Pool::lock_ of each pool: the set of its holders
    pc,                 \* position of each thread (mapper, producers)
    buf_p,              \* each thread's local buf_p (the handle it fetched)
    success,            \* Object_Pool::fetch's local `success` of each thread
    deposits,           \* deposits completed by each producer
    m_idx,              \* map_buffer's position in the buffer being routed
    partition_buf,      \* Key_Value_Collator::partition_buf
    partition_file,     \* content on disk of each partition file
    stream_incoming,    \* Key_Value_Collator::stream_incoming
    joinable,           \* mapper->joinable()
    cpc,                \* position of the thread calling close_deposit_stream
    c_pid,              \* close_deposit_stream's loop variable p_id
    returned,           \* ghost: how often each pair was in a buffer passed to return_buffer
    aborted,            \* the process has exited with EXIT_FAILURE
    file_exists,        \* whether each partition file exists on disk
    thread_count,       \* collate's argument
    kpc,                \* position of the thread calling collate
    t_id,               \* collate's loop variable t_id
    worker,             \* the collate workers: position and locals of each
    processed,          \* ghost: the workers that rewrote each partition file, in order
    file_at_collate,    \* ghost: the partition files when collate was invoked
    iter,               \* the Key_Value_Iterator objects
    driver,             \* the thread iterating with *it and ++it
    readers,            \* the threads calling read on a shared iterator
    dtor                \* position and loop variable of ~Key_Value_Collator

vars == << buf_count, bufs, pool, size_, lock_, pc, buf_p, success, deposits,
           m_idx, partition_buf, partition_file, stream_incoming, joinable,
           cpc, c_pid, returned, aborted, file_exists, thread_count, kpc, t_id,
           worker, processed, file_at_collate, iter, driver, readers, dtor >>

depositVars == << buf_count, bufs, pool, size_, lock_, pc, buf_p, success, deposits,
                  m_idx, partition_buf, stream_incoming, joinable, cpc, c_pid,
                  returned >>
collateVars == << thread_count, kpc, t_id, worker, processed, file_at_collate >>
iterVars == << iter, driver, readers >>
\* What the deposit phase leaves alone.
laterVars == << file_exists, collateVars, iterVars, dtor >>

poolVars == << pool, size_, lock_ >>
partVars == << partition_buf, partition_file >>
closeVars == << stream_incoming, joinable, cpc, c_pid >>

\* The pool a thread fetches from, and the one it pushes to:
\* get_buffer / return_buffer for a producer, map for the mapper.
FetchPool(t) == IF t = Mapper THEN "full" ELSE "free"
PushPool(t) == IF t = Mapper THEN "free" ELSE "full"

\* Buffer_Pool::free_buf_count, Buffer_Pool::full_buf_count
free_buf_count == size_["free"]
full_buf_count == size_["full"]

\* No collate is running and none has run.
NoCollate ==
    /\ thread_count = 0
    /\ kpc = "idle"
    /\ t_id = 0
    /\ worker = <<>>
    /\ processed = [p \in Partitions |-> <<>>]
    /\ file_at_collate = partition_file

\* No iterator has been constructed.
NoIteration ==
    /\ iter = <<>>
    /\ driver = <<>>
    /\ readers = <<>>

\* The collator has not been destructed.
Alive == dtor = [pc |-> "alive", p_id |-> 0]

\* Key_Value_Collator::Key_Value_Collator
Init ==
    /\ buf_count \in 1 .. MaxBufCount
    /\ bufs = [b \in 1 .. buf_count |-> <<>>]
    /\ pool = [q \in {"free", "full"} |->
                 IF q = "free" THEN [i \in 1 .. buf_count |-> i] ELSE <<>>]
    /\ size_ = [q \in {"free", "full"} |-> IF q = "free" THEN buf_count ELSE 0]
    /\ lock_ = [q \in {"free", "full"} |-> {}]
    /\ pc = [t \in Threads |-> IF t = Mapper THEN "map" ELSE "idle"]
    /\ buf_p = [t \in Threads |-> nullptr]
    /\ success = [t \in Threads |-> FALSE]
    /\ deposits = [i \in Producers |-> 0]
    /\ m_idx = 0
    /\ partition_buf = [p \in Partitions |-> <<>>]
    /\ partition_file = [p \in Partitions |-> <<>>]
    /\ stream_incoming = TRUE
    /\ joinable = TRUE
    /\ cpc = "open"
    /\ c_pid = 0
    /\ returned = [kv \in DepositPairs |-> 0]
    /\ aborted = FALSE
    /\ file_exists = [p \in Partitions |-> TRUE]
    /\ NoCollate
    /\ NoIteration
    /\ Alive

\* ------------------------------------------------------------ Object_Pool
\* Object_Pool::fetch, `if(empty()) return false;`: the pool looked empty.
fetch_empty(t) ==
    /\ size_[FetchPool(t)] = 0
    /\ pc' = [pc EXCEPT ![t] = IF t = Mapper THEN "map" ELSE "get_buffer"]
    /\ UNCHANGED << buf_p, success, poolVars >>

\* Object_Pool::fetch, past the empty() check: `success = false`.
fetch_nonempty(t) ==
    /\ size_[FetchPool(t)] # 0
    /\ pc' = [pc EXCEPT ![t] = "fetch_lock"]
    /\ success' = [success EXCEPT ![t] = FALSE]
    /\ UNCHANGED << buf_p, poolVars >>

\* Object_Pool::fetch, `lock_.lock()`
fetch_lock(t) ==
    /\ pc[t] = "fetch_lock"
    /\ lock_[FetchPool(t)] = {}
    /\ lock_' = [lock_ EXCEPT ![FetchPool(t)] = {t}]
    /\ pc' = [pc EXCEPT ![t] = "fetch_pop"]
    /\ UNCHANGED << buf_p, success, pool, size_ >>

fetch_pop_without_fetch_sub(t) ==
    LET q == FetchPool(t) IN
    /\ pc[t] = "fetch_pop"
    /\ IF pool[q] # <<>>
       THEN /\ buf_p' = [buf_p EXCEPT ![t] = pool[q][Len(pool[q])]]
            /\ pool' = [pool EXCEPT ![q] = pop_back(@)]
            /\ success' = [success EXCEPT ![t] = TRUE]
       ELSE UNCHANGED << buf_p, pool, success >>
    /\ pc' = [pc EXCEPT ![t] = "fetch_unlock"]
    /\ UNCHANGED << lock_, size_ >>
\* Object_Pool::fetch, the body of `if(!pool.empty())`
fetch_pop(t) ==
    LET q == FetchPool(t) IN
    /\ pc[t] = "fetch_pop"
    /\ IF pool[q] # <<>>
       THEN /\ size_' = [size_ EXCEPT ![q] = @ - 1]
            /\ buf_p' = [buf_p EXCEPT ![t] = pool[q][Len(pool[q])]]
            /\ pool' = [pool EXCEPT ![q] = pop_back(@)]
            /\ success' = [success EXCEPT ![t] = TRUE]
       ELSE UNCHANGED << size_, buf_p, pool, success >>
    /\ pc' = [pc EXCEPT ![t] = "fetch_unlock"]
    /\ UNCHANGED lock_

fetch_unlock_keeps_lock(t) ==
    /\ pc[t] = "fetch_unlock"
    /\ pc' = [pc EXCEPT ![t] =
                IF success[t]
                THEN (IF t = Mapper THEN "map_buffer" ELSE "fill")
                ELSE (IF t = Mapper THEN "map" ELSE "get_buffer")]
    /\ UNCHANGED << buf_p, success, pool, size_, lock_ >>
\* Object_Pool::fetch, `lock_.unlock(); return success;` and the caller's branch
\* on the result (get_buffer's while, map's if).
fetch_unlock(t) ==
    /\ pc[t] = "fetch_unlock"
    /\ lock_' = [lock_ EXCEPT ![FetchPool(t)] = {}]
    /\ pc' = [pc EXCEPT ![t] =
                IF success[t]
                THEN (IF t = Mapper THEN "map_buffer" ELSE "fill")
                ELSE (IF t = Mapper THEN "map" ELSE "get_buffer")]
    /\ UNCHANGED << buf_p, success, pool, size_ >>

\* Object_Pool::push, `lock_.lock()`
push_lock(t) ==
    /\ pc[t] = "push_lock"
    /\ lock_[PushPool(t)] = {}
    /\ lock_' = [lock_ EXCEPT ![PushPool(t)] = {t}]
    /\ pc' = [pc EXCEPT ![t] = "push_emplace_back"]
    /\ UNCHANGED << buf_p, success, pool, size_ >>

\* Object_Pool::push, `pool.emplace_back(obj)`
push_emplace_back(t) ==
    /\ pc[t] = "push_emplace_back"
    /\ pool' = [pool EXCEPT ![PushPool(t)] = Append(@, buf_p[t])]
    /\ pc' = [pc EXCEPT ![t] = "push_fetch_add"]
    /\ UNCHANGED << buf_p, success, size_, lock_ >>

push_fetch_add_skipped(t) ==
    /\ pc[t] = "push_fetch_add"
    /\ pc' = [pc EXCEPT ![t] = "push_unlock"]
    /\ UNCHANGED << buf_p, success, pool, lock_, size_ >>
\* Object_Pool::push, `size_.fetch_add(1)`
push_fetch_add(t) ==
    /\ pc[t] = "push_fetch_add"
    /\ size_' = [size_ EXCEPT ![PushPool(t)] = @ + 1]
    /\ pc' = [pc EXCEPT ![t] = "push_unlock"]
    /\ UNCHANGED << buf_p, success, pool, lock_ >>

\* Object_Pool::push, `lock_.unlock()`, and the return to the caller.
push_unlock(t) ==
    /\ pc[t] = "push_unlock"
    /\ lock_' = [lock_ EXCEPT ![PushPool(t)] = {}]
    /\ pc' = [pc EXCEPT ![t] = IF t = Mapper THEN "map" ELSE "idle"]
    /\ UNCHANGED << buf_p, success, pool, size_ >>

\* ---------------------------------------------------------------- producers
\* A producer calls get_buffer.
get_buffer_call(i) ==
    /\ ~aborted
    /\ pc[i] = "idle"
    /\ deposits[i] < MaxDeposits
    /\ cpc = "open"
    /\ pc' = [pc EXCEPT ![i] = "get_buffer"]
    /\ UNCHANGED laterVars
    /\ UNCHANGED << buf_count, bufs, poolVars, buf_p, success, deposits, m_idx,
                    partVars, closeVars, returned, aborted >>

\* Key_Value_Collator::get_buffer: `while(!buf_pool.fetch_free_buf(buf_p));`
get_buffer(i) ==
    /\ ~aborted
    /\ \/ pc[i] = "get_buffer" /\ (fetch_empty(i) \/ fetch_nonempty(i))
       \/ fetch_lock(i)
       \/ fetch_pop(i)
       \/ fetch_unlock(i)
    /\ UNCHANGED laterVars
    /\ UNCHANGED << buf_count, bufs, deposits, m_idx, partVars, closeVars,
                    returned, aborted >>

\* The producer fills the buffer it holds (buf.emplace_back(...) in the callers).
fill(i) ==
    /\ ~aborted
    /\ pc[i] = "fill"
    /\ \E c \in BufContents :
          /\ Len(bufs[buf_p[i]]) + Len(c) <= MaxBufLen
          /\ bufs' = [bufs EXCEPT ![buf_p[i]] = @ \o c]
    /\ pc' = [pc EXCEPT ![i] = "return_buffer"]
    /\ UNCHANGED laterVars
    /\ UNCHANGED << buf_count, poolVars, buf_p, success, deposits, m_idx,
                    partVars, closeVars, returned, aborted >>

\* Key_Value_Collator::return_buffer: `buf_pool.return_full_buffer(&buf)`
return_buffer(i) ==
    /\ ~aborted
    /\ \/ /\ pc[i] = "return_buffer"
          /\ pc' = [pc EXCEPT ![i] = "push_lock"]
          /\ returned' = [kv \in DepositPairs |-> returned[kv] + Occ(bufs[buf_p[i]], kv)]
          /\ UNCHANGED << poolVars, deposits >>
       \/ push_lock(i) /\ UNCHANGED << returned, deposits >>
       \/ push_emplace_back(i) /\ UNCHANGED << returned, deposits >>
       \/ push_fetch_add(i) /\ UNCHANGED << returned, deposits >>
       \/ /\ push_unlock(i)
          /\ deposits' = [deposits EXCEPT ![i] = @ + 1]
          /\ UNCHANGED returned
    /\ UNCHANGED laterVars
    /\ UNCHANGED << buf_count, bufs, buf_p, success, m_idx, partVars, closeVars,
                    aborted >>

\* ------------------------------------------------------------------ mapper
flush_clears_first(p_id, pb) ==
    /\ partition_buf' = [pb EXCEPT ![p_id] = <<>>]
    /\ partition_file' = [partition_file EXCEPT ![p_id] = file_write(@, partition_buf'[p_id])]
    /\ UNCHANGED aborted

\* Key_Value_Collator::flush on the partition buffers `pb`: the write succeeds
\* and the buffer is cleared, or the write fails and the process exits.
flush(p_id, pb) ==
    \/ /\ partition_file' = [partition_file EXCEPT ![p_id] = file_write(@, pb[p_id])]
       /\ partition_buf' = [pb EXCEPT ![p_id] = <<>>]
       /\ UNCHANGED aborted
    \/ /\ aborted' = TRUE
       /\ partition_buf' = pb
       /\ UNCHANGED partition_file

emplace_front(p_buf, x) == << x >> \o p_buf
\* std::vector::emplace_back
emplace_back(p_buf, x) == Append(p_buf, x)

flush_due_one_later(p_buf) == Len(p_buf) = partition_buf_elem_th + 1
\* Key_Value_Collator::map_buffer, `if(p_buf.size() == partition_buf_elem_th)`
flush_due(p_buf) == Len(p_buf) = partition_buf_elem_th

\* Key_Value_Collator::map_buffer, one iteration of its loop over the buffer.
map_buffer ==
    LET buf == bufs[buf_p[Mapper]] IN
    /\ pc[Mapper] = "map_buffer"
    /\ IF m_idx > Len(buf)
       THEN /\ pc' = [pc EXCEPT ![Mapper] = "clear"]
            /\ UNCHANGED << m_idx, partVars, aborted >>
       ELSE LET key_val_pair == buf[m_idx]
                p_id == get_partition_id(key_val_pair[1])
                pb == [partition_buf EXCEPT ![p_id] = emplace_back(@, key_val_pair)]
            IN  /\ IF flush_due(pb[p_id])
                   THEN flush(p_id, pb)
                   ELSE /\ partition_buf' = pb
                        /\ UNCHANGED << partition_file, aborted >>
                /\ m_idx' = m_idx + 1
                /\ UNCHANGED pc
    /\ UNCHANGED << bufs, buf_p, success, poolVars >>

clear_keeps_pairs(buf) == buf
\* std::vector::clear
clear(buf) == <<>>

\* Key_Value_Collator::map, the mapper thread.
map ==
    /\ ~aborted
    /\ \/ \* while(stream_incoming || ...): the left operand
          /\ pc[Mapper] = "map"
          /\ pc' = [pc EXCEPT ![Mapper] =
                      IF map_loop_cond(stream_incoming, 0) THEN "fetch" ELSE "map_full_count"]
          /\ UNCHANGED << bufs, buf_p, success, poolVars, m_idx, partVars, joinable, aborted >>
       \/ \* while(... || buf_pool.full_buf_count() > 0): the right operand
          /\ pc[Mapper] = "map_full_count"
          /\ pc' = [pc EXCEPT ![Mapper] =
                      IF map_loop_cond(FALSE, full_buf_count) THEN "fetch" ELSE "exited"]
          /\ UNCHANGED << bufs, buf_p, success, poolVars, m_idx, partVars, joinable, aborted >>
       \/ \* if(buf_pool.fetch_full_buf(buf_p))
          /\ pc[Mapper] = "fetch"
          /\ (fetch_empty(Mapper) \/ fetch_nonempty(Mapper))
          /\ UNCHANGED << bufs, m_idx, partVars, joinable, aborted >>
       \/ fetch_lock(Mapper) /\ UNCHANGED << bufs, m_idx, partVars, joinable, aborted >>
       \/ fetch_pop(Mapper) /\ UNCHANGED << bufs, m_idx, partVars, joinable, aborted >>
       \/ fetch_unlock(Mapper) /\ m_idx' = 1
                               /\ UNCHANGED << bufs, partVars, joinable, aborted >>
       \/ map_buffer /\ UNCHANGED joinable
       \/ \* buf_p->clear(); buf_pool.return_free_buf(buf_p);
          /\ pc[Mapper] = "clear"
          /\ bufs' = [bufs EXCEPT ![buf_p[Mapper]] = clear(@)]
          /\ pc' = [pc EXCEPT ![Mapper] = "push_lock"]
          /\ UNCHANGED << buf_p, success, poolVars, m_idx, partVars, joinable, aborted >>
       \/ push_lock(Mapper) /\ UNCHANGED << bufs, m_idx, partVars, joinable, aborted >>
       \/ push_emplace_back(Mapper) /\ UNCHANGED << bufs, m_idx, partVars, joinable, aborted >>
       \/ push_fetch_add(Mapper) /\ UNCHANGED << bufs, m_idx, partVars, joinable, aborted >>
       \/ push_unlock(Mapper) /\ UNCHANGED << bufs, m_idx, partVars, joinable, aborted >>
    /\ UNCHANGED laterVars
    /\ UNCHANGED << buf_count, deposits, stream_incoming, cpc, c_pid, returned >>

\* ------------------------------------------------------------------- close
mapper_joinable_always == TRUE
\* mapper->joinable()
mapper_joinable == joinable

mapper_joined_at_once == TRUE
\* mapper->join() returns: the mapper thread has left map.
mapper_joined == pc[Mapper] = "exited"

\* Key_Value_Collator::close_deposit_stream
close_deposit_stream ==
    /\ ~aborted
    /\ \/ \* stream_incoming = false; (called once every producer has made its
          \* deposits, as the method's comment requires, or called once more)
          /\ cpc \in {"open", "closed"}
          /\ \A i \in Producers : pc[i] = "idle"
          /\ stream_incoming' = FALSE
          /\ cpc' = "joinable_check"
          /\ UNCHANGED << joinable, c_pid, partVars, aborted >>
       \/ \* if(!mapper->joinable()) ... std::exit(EXIT_FAILURE);
          /\ cpc = "joinable_check"
          /\ IF mapper_joinable
             THEN cpc' = "join" /\ UNCHANGED aborted
             ELSE aborted' = TRUE /\ UNCHANGED cpc
          /\ UNCHANGED << stream_incoming, joinable, c_pid, partVars >>
       \/ \* mapper->join();
          /\ cpc = "join"
          /\ mapper_joined
          /\ joinable' = FALSE
          /\ cpc' = "flush"
          /\ c_pid' = 0
          /\ UNCHANGED << stream_incoming, partVars, aborted >>
       \/ \* one iteration of the loop over the partitions
          /\ cpc = "flush"
          /\ IF partition_buf[c_pid] # <<>>
             THEN flush(c_pid, partition_buf)
             ELSE UNCHANGED << partVars, aborted >>
          /\ c_pid' = c_pid + 1
          /\ cpc' = IF aborted' THEN "flush"
                    ELSE IF c_pid + 1 = partition_count THEN "closed" ELSE "flush"
          /\ UNCHANGED << stream_incoming, joinable >>
    /\ UNCHANGED laterVars
    /\ UNCHANGED << buf_count, bufs, poolVars, pc, buf_p, success, deposits, m_idx,
                    returned >>

Next ==
    \/ \E i \in Producers : get_buffer_call(i)
    \/ \E i \in Producers : get_buffer(i)
    \/ \E i \in Producers : fill(i)
    \/ \E i \in Producers : return_buffer(i)
    \/ map
    \/ close_deposit_stream

Spec == Init /\ [][Next]_vars

\* Everything held in the partition buffers and files, as one sequence.
InMemory == Concat(partition_buf, partition_count)
OnDisk == Concat(partition_file, partition_count)

\* ======================================================= deposit: claims
\* A thread holds the staging buffer b: it fetched it and has not pushed it back.
Holds(t, b) ==
    /\ buf_p[t] = b
    /\ \/ pc[t] \in {"fill", "return_buffer", "map_buffer", "clear", "push_lock",
                     "push_emplace_back"}
       \/ pc[t] = "fetch_unlock" /\ success[t]

\* In how many places the staging buffer b is.
Places(b) ==
    Occ(pool["free"], b) + Occ(pool["full"], b) + Cardinality({t \in Threads : Holds(t, b)})

\* C1 (conservation): when close_deposit_stream has returned, every pair is in
\* the partition files exactly as often as it was in the buffers passed to
\* return_buffer, and no pair is left in an in-memory partition buffer.
C1_Conservation ==
    cpc = "closed" =>
        /\ \A kv \in DepositPairs : Occ(OnDisk, kv) = returned[kv]
        /\ \A i \in DOMAIN OnDisk : OnDisk[i] \in DepositPairs
        /\ InMemory = <<>>

\* close returned after both producers deposited through the only staging buffer,
\* and at least three pairs went to disk.
C1_Witness ==
    /\ cpc = "closed"
    /\ buf_count = 1
    /\ \A i \in Producers : deposits[i] = 1
    /\ Len(OnDisk) >= 3

\* C2 (partitioning): every pair held in partition buffer p or in partition
\* file p has H(key) AND (P - 1) = p.
C2_Partitioning ==
    \A p \in Partitions :
        /\ \A i \in DOMAIN partition_buf[p] :
              BitAnd(hash(partition_buf[p][i][1]), partition_count - 1) = p
        /\ \A i \in DOMAIN partition_file[p] :
              BitAnd(hash(partition_file[p][i][1]), partition_count - 1) = p

\* Both files and a partition buffer hold pairs, one of them with a key that is
\* not below the partition count.
C2_Witness ==
    /\ \A p \in Partitions : partition_file[p] # <<>>
    /\ \E p \in Partitions : partition_buf[p] # <<>>
    /\ \E p \in Partitions : \E i \in DOMAIN partition_file[p] :
          partition_file[p][i][1] >= partition_count

\* C9 (buffer ownership): every staging buffer is in exactly one place (the free
\* set, the full set, one producer or the mapper), so that
\* |free| + |full| + |in flight| = buf_count.
C9_Ownership ==
    /\ \A b \in 1 .. buf_count : Places(b) = 1
    /\ Len(pool["free"]) + Len(pool["full"])
         + Cardinality({t \in Threads : \E b \in 1 .. buf_count : Holds(t, b)})
       = buf_count

\* A producer and the mapper each hold a buffer at the same time.
C9_Witness ==
    \E i \in Producers : \E b1, b2 \in 1 .. buf_count :
        b1 # b2 /\ Holds(i, b1) /\ Holds(Mapper, b2)

\* C10 (pool quiescence): when close_deposit_stream has returned, free_count is
\* buf_count, full_count is 0 and the mapper thread has terminated and is joined.
C10_Quiescence ==
    cpc = "closed" =>
        /\ free_buf_count = buf_count
        /\ full_buf_count = 0
        /\ pool["full"] = <<>>
        /\ pc[Mapper] = "exited"
        /\ ~joinable

\* close returned after both producers deposited a non-empty buffer, with two buffers.
C10_Witness ==
    /\ cpc = "closed"
    /\ buf_count = 2
    /\ \A i \in Producers : deposits[i] = 1
    /\ Len(OnDisk) >= 2

\* ================================================================ collate
\* SpecCollate: collate(thread_count) on a closed collator.

\* collate is called with thread_count in 0..MaxThreads: more workers than
\* partitions included.
MaxThreads == partition_count + 1
\* A partition file holds at most MaxFileLen pairs when collate is invoked.
MaxFileLen == 2
\* sizeof(key_val_pair_t) for std::pair<uint32_t, std::size_t>
sizeof_key_val_pair_t == 16

Workers == 0 .. (MaxThreads - 1)

\* std::pair's operator<: the key first, then the value.
PairLess(a, b) == a[1] < b[1] \/ (a[1] = b[1] /\ a[2] < b[2])
KeyLess(a, b) == a[1] < b[1]

IsSorted(s) == \A i, j \in DOMAIN s : i < j => ~PairLess(s[j], s[i])

RECURSIVE InsertSorted(_, _)
\* x put into the sorted sequence s at its place.
InsertSorted(s, x) ==
    IF s = <<>> THEN << x >>
    ELSE IF PairLess(Head(s), x) THEN << Head(s) >> \o InsertSorted(Tail(s), x)
    ELSE << x >> \o s

RECURSIVE InsertByKey(_, _)
InsertByKey(s, x) ==
    IF s = <<>> THEN << x >>
    ELSE IF KeyLess(Head(s), x) THEN << Head(s) >> \o InsertByKey(Tail(s), x)
    ELSE << x >> \o s

RECURSIVE InsertionSort(_)
InsertionSort(s) == IF s = <<>> THEN <<>> ELSE InsertSorted(InsertionSort(Tail(s)), Head(s))

RECURSIVE InsertionSortByKey(_)
InsertionSortByKey(s) == IF s = <<>> THEN <<>> ELSE InsertByKey(InsertionSortByKey(Tail(s)), Head(s))

std_sort_by_key(p_data, elem_count) ==
    InsertionSortByKey(SubSeq(p_data, 1, elem_count)) \o SubSeq(p_data, elem_count + 1, Len(p_data))
\* std::sort(p_data, p_data + elem_count)
std_sort(p_data, elem_count) ==
    InsertionSort(SubSeq(p_data, 1, elem_count)) \o SubSeq(p_data, elem_count + 1, Len(p_data))

next_p_id_by_one(p_id, stride) == p_id + 1
\* `p_id += stride` of the worker's loops (no wrap-around of the uint32_t:
\* p_id + stride stays below partition_count + MaxThreads).
next_p_id(p_id, stride) == p_id + stride

\* The worker lambda's file_size: st_size, or 0 when stat fails.
file_size(p_id) ==
    IF file_exists[p_id] THEN Len(partition_file[p_id]) * sizeof_key_val_pair_t ELSE 0

RECURSIVE max_file_size(_, _, _)
\* The worker's first loop: the largest file_size among its partitions.
max_file_size(p_id, stride, buf_sz) ==
    IF p_id < partition_count
    THEN max_file_size(next_p_id(p_id, stride), stride,
                       IF file_size(p_id) > buf_sz THEN file_size(p_id) ELSE buf_sz)
    ELSE buf_sz

\* The sequences a partition file of partition p may hold after close: pairs
\* whose key is routed to p, in any order.
PartitionContents(p) ==
    LET pairs == {kv \in key_val_pair_t : get_partition_id(kv[1]) = p}
    IN  UNION { [1 .. n -> pairs] : n \in 0 .. MaxFileLen }

\* A collator after close_deposit_stream returned, with the partition files `files`.
ClosedCollator(files) ==
    /\ buf_count = 1
    /\ bufs = [b \in 1 .. buf_count |-> <<>>]
    /\ pool = [q \in {"free", "full"} |->
                 IF q = "free" THEN [i \in 1 .. buf_count |-> i] ELSE <<>>]
    /\ size_ = [q \in {"free", "full"} |-> IF q = "free" THEN buf_count ELSE 0]
    /\ lock_ = [q \in {"free", "full"} |-> {}]
    /\ pc = [t \in Threads |-> IF t = Mapper THEN "exited" ELSE "idle"]
    /\ buf_p = [t \in Threads |-> nullptr]
    /\ success = [t \in Threads |-> FALSE]
    /\ deposits = [i \in Producers |-> 0]
    /\ m_idx = 0
    /\ partition_buf = [p \in Partitions |-> <<>>]
    /\ partition_file = files
    /\ stream_incoming = FALSE
    /\ joinable = FALSE
    /\ cpc = "closed"
    /\ c_pid = partition_count
    /\ returned = [kv \in key_val_pair_t |-> Occ(Concat(files, partition_count), kv)]
    /\ aborted = FALSE
    /\ file_exists = [p \in Partitions |-> TRUE]
    /\ Alive

\* collate is invoked on a closed collator.
InitCollate ==
    /\ \E files \in [Partitions -> UNION {PartitionContents(p) : p \in Partitions}] :
          /\ \A p \in Partitions : files[p] \in PartitionContents(p)
          /\ ClosedCollator(files)
    /\ thread_count \in 0 .. MaxThreads
    /\ kpc = "spawn"
    /\ t_id = 0
    /\ worker = [w \in Workers |->
                   [pc |-> "unstarted", init_id |-> 0, stride |-> 0, p_id |-> 0,
                    buf_sz |-> 0, p_bytes |-> 0, elem_count |-> 0, p_data |-> <<>>,
                    fault |-> {}]]
    /\ processed = [p \in Partitions |-> <<>>]
    /\ file_at_collate = partition_file
    /\ NoIteration

\* collate, the first loop: worker.emplace_back(lambda, t_id, thread_count)
collate_spawn ==
    /\ ~aborted
    /\ kpc = "spawn"
    /\ IF t_id < thread_count
       THEN /\ worker' = [worker EXCEPT ![t_id].pc = "scan",
                                        ![t_id].init_id = t_id,
                                        ![t_id].stride = thread_count]
            /\ t_id' = t_id + 1
            /\ UNCHANGED kpc
       ELSE /\ kpc' = "join"
            /\ t_id' = 0
            /\ UNCHANGED worker
    /\ UNCHANGED << depositVars, dtor, partition_file, aborted, file_exists, thread_count,
                    processed, file_at_collate, iterVars >>

\* collate, the second loop: worker[t_id].join()
collate_join ==
    /\ ~aborted
    /\ kpc = "join"
    /\ IF t_id < thread_count
       THEN /\ worker[t_id].pc = "finished"
            /\ t_id' = t_id + 1
            /\ UNCHANGED kpc
       ELSE /\ kpc' = "returned"
            /\ UNCHANGED t_id
    /\ UNCHANGED << depositVars, dtor, partition_file, aborted, file_exists, thread_count,
                    worker, processed, file_at_collate, iterVars >>

\* The worker lambda: the first loop and std::malloc(buf_sz).
worker_scan(w) ==
    /\ worker[w].pc = "scan"
    /\ worker' = [worker EXCEPT
                    ![w].buf_sz = max_file_size(worker[w].init_id, worker[w].stride, 0),
                    ![w].p_id = worker[w].init_id,
                    ![w].pc = "loop"]
    /\ UNCHANGED << partition_file, file_exists, processed, aborted >>

\* The worker lambda: the second loop's test, and std::free(p_data) past it.
worker_loop(w) ==
    /\ worker[w].pc = "loop"
    /\ worker' = [worker EXCEPT
                    ![w].pc = IF worker[w].p_id < partition_count THEN "stat" ELSE "finished"]
    /\ UNCHANGED << partition_file, file_exists, processed, aborted >>

\* The worker lambda: p_bytes = file_size(p_path)
worker_stat(w) ==
    /\ worker[w].pc = "stat"
    /\ worker' = [worker EXCEPT ![w].p_bytes = file_size(worker[w].p_id),
                                ![w].pc = "read"]
    /\ UNCHANGED << partition_file, file_exists, processed, aborted >>

\* The worker lambda: input.read(p_data, p_bytes), which fails when the file
\* cannot be opened or holds fewer than p_bytes bytes, and elem_count.
worker_read(w) ==
    LET p == worker[w].p_id
        n == worker[w].p_bytes \div sizeof_key_val_pair_t
    IN  /\ worker[w].pc = "read"
        /\ IF file_exists[p] /\ Len(partition_file[p]) * sizeof_key_val_pair_t >= worker[w].p_bytes
           THEN /\ worker' = [worker EXCEPT
                                ![w].p_data = SubSeq(partition_file[p], 1, n)
                                                \o SubSeq(@, n + 1, Len(@)),
                                ![w].elem_count = n,
                                ![w].pc = "sort"]
                /\ UNCHANGED aborted
           ELSE /\ aborted' = TRUE
                /\ UNCHANGED worker
        /\ UNCHANGED << partition_file, file_exists, processed >>

\* The worker lambda: std::sort(p_data, p_data + elem_count)
worker_sort(w) ==
    /\ worker[w].pc = "sort"
    /\ worker' = [worker EXCEPT ![w].p_data = std_sort(@, worker[w].elem_count),
                                ![w].pc = "remove"]
    /\ UNCHANGED << partition_file, file_exists, processed, aborted >>

\* The worker lambda: std::remove(p_path)
worker_remove(w) ==
    /\ worker[w].pc = "remove"
    /\ file_exists' = [file_exists EXCEPT ![worker[w].p_id] = FALSE]
    /\ partition_file' = [partition_file EXCEPT ![worker[w].p_id] = <<>>]
    /\ worker' = [worker EXCEPT ![w].pc = "write"]
    /\ UNCHANGED << processed, aborted >>

\* The worker lambda: the ofstream is opened and output.write(p_data, p_bytes)
\* succeeds, or fails and the process exits; then `p_id += stride`.
worker_write(w) ==
    LET p == worker[w].p_id IN
    /\ worker[w].pc = "write"
    /\ \/ /\ file_exists' = [file_exists EXCEPT ![p] = TRUE]
          /\ partition_file' = [partition_file EXCEPT ![p] =
                SubSeq(worker[w].p_data, 1, worker[w].p_bytes \div sizeof_key_val_pair_t)]
          /\ processed' = [processed EXCEPT ![p] = Append(@, w)]
          /\ worker' = [worker EXCEPT ![w].p_id = next_p_id(p, worker[w].stride),
                                      ![w].pc = "loop"]
          /\ UNCHANGED aborted
       \/ /\ aborted' = TRUE
          /\ UNCHANGED << file_exists, partition_file, processed, worker >>

\* One step of a collate worker.
collate_worker(w) ==
    /\ ~aborted
    /\ \/ worker_scan(w)
       \/ worker_loop(w)
       \/ worker_stat(w)
       \/ worker_read(w)
       \/ worker_sort(w)
       \/ worker_remove(w)
       \/ worker_write(w)
    /\ UNCHANGED << depositVars, dtor, thread_count, kpc, t_id, file_at_collate, iterVars >>

NextCollate ==
    \/ collate_spawn
    \/ collate_join
    \/ \E w \in Workers : collate_worker(w)

SpecCollate == InitCollate /\ [][NextCollate]_vars

\* ======================================================== collate: claims
\* Worker w has partition p on its stride: p is w, w + W, w + 2W, ...
OnStride(w, p) == \E k \in 0 .. partition_count : p = w + k * thread_count

\* C3 as stated (sort): after collate returns, whatever thread_count was passed,
\* every partition file is non-decreasing under the pair order.
C3_SortedAnyThreadCount ==
    kpc = "returned" => \A p \in Partitions : IsSorted(partition_file[p])

\* C3 as amended (sort): after collate(thread_count) returns with
\* thread_count >= 1, every partition file is non-decreasing under the pair order
\* (key ascending, ties broken by value ascending).
C3_Sorted ==
    (kpc = "returned" /\ thread_count >= 1) =>
        \A p \in Partitions : file_exists[p] /\ IsSorted(partition_file[p])

\* collate(1) returned, and a file that held two pairs out of order when collate
\* was invoked still holds two pairs.
C3_Witness ==
    /\ kpc = "returned"
    /\ thread_count = 1
    /\ \E p \in Partitions :
          /\ ~IsSorted(file_at_collate[p])
          /\ Len(partition_file[p]) = 2

\* What C4 says of the workers whatever thread_count is: collate launches the
\* workers 0..thread_count-1 and no other, a worker rewrites only partitions on
\* its stride, no partition is rewritten twice, and collate returns only after
\* every worker has finished.
WorkerDiscipline ==
    /\ \A p \in Partitions :
          /\ Len(processed[p]) <= 1
          /\ \A i \in DOMAIN processed[p] :
                processed[p][i] < thread_count /\ OnStride(processed[p][i], p)
    /\ \A w \in Workers : w >= thread_count => worker[w].pc = "unstarted"
    /\ kpc = "returned" =>
          \A w \in Workers : w < thread_count => worker[w].pc = "finished"

\* C4 as stated (worker coverage): besides the above, when collate(W) has
\* returned every partition has been processed exactly once.
C4_CoverageAnyThreadCount ==
    /\ WorkerDiscipline
    /\ kpc = "returned" => \A p \in Partitions : Len(processed[p]) = 1

\* C4 as amended (worker coverage): for W >= 1, collate(W) launches W workers,
\* worker w processes exactly the partitions w, w + W, ... below P, every
\* partition is processed exactly once (also when W > P), and collate returns
\* only after every worker has finished.
C4_Coverage ==
    /\ WorkerDiscipline
    /\ (kpc = "returned" /\ thread_count >= 1) =>
          \A p \in Partitions : Len(processed[p]) = 1

\* collate returned with more workers than partitions.
C4_Witness ==
    /\ kpc = "returned"
    /\ thread_count > partition_count
    /\ \A p \in Partitions : processed[p] = << p >>

\* =============================================================== iterator
\* Key_Value_Iterator over the partition files of a collated collator.

\* Key_Value_Iterator::buf_sz is 5 MiB / sizeof(pair) in the source; scaled down.
iter_buf_sz == 2
\* A collated partition file holds at most MaxCollatedLen pairs.
MaxCollatedLen == 3

\* The member elem is not named by the constructor's initialisers: it is
\* default-constructed, and std::pair's default constructor value-initialises
\* both members.
default_elem == << 0, 0 >>

Min(a, b) == IF a < b THEN a ELSE b

\* Key_Value_Iterator::Key_Value_Iterator(work_pref, partition_count, at_end).
\* `handle` names the FILE objects and the buffer this iterator allocates;
\* f_pid and f_off are the partition and the position of its open stream;
\* `exit` records that an operation on it has called std::exit or has crashed.
Key_Value_Iterator(handle, at_end) ==
    [handle |-> handle, file_ptr |-> nullptr, f_pid |-> 0, f_off |-> 0,
     curr_p_id |-> 0, pos |-> 0, at_end |-> at_end, buf |-> nullptr, rbuf |-> <<>>,
     buf_elem_count |-> 0, buf_idx |-> 0, elem |-> default_elem, lock |-> {},
     exit |-> FALSE]

\* Key_Value_Collator::begin, Key_Value_Collator::end
begin == Key_Value_Iterator(1, FALSE)
end == Key_Value_Iterator(2, TRUE)

\* std::fopen(partition_file_path(p_id), "rb") succeeds: the file exists.
fopen_ok(p_id) == p_id \in Partitions /\ file_exists[p_id]

\* Key_Value_Iterator::set_file_handle
set_file_handle(it, p_id) ==
    IF fopen_ok(p_id)
    THEN [it EXCEPT !.file_ptr = it.handle, !.f_pid = p_id, !.f_off = 0]
    ELSE [it EXCEPT !.file_ptr = nullptr, !.exit = TRUE]

fread_one_more(it, count) ==
    LET f == partition_file[it.f_pid]
    IN  SubSeq(f, it.f_off + 1, Min(it.f_off + count + 1, Len(f)))
\* std::fread(buf, sizeof(key_val_pair_t), count, file_ptr): the pairs it reads.
fread(it, count) ==
    LET f == partition_file[it.f_pid]
    IN  SubSeq(f, it.f_off + 1, Min(it.f_off + count, Len(f)))

\* Key_Value_Iterator::operator==
iterator_eq(a, b) ==
    IF a.file_ptr = nullptr \/ b.file_ptr = nullptr
    THEN a.file_ptr = nullptr /\ b.file_ptr = nullptr /\ a.at_end = b.at_end
    ELSE a.file_ptr = b.file_ptr /\ a.pos = b.pos

\* Key_Value_Iterator::operator!=
iterator_neq(a, b) == ~iterator_eq(a, b)

RECURSIVE advance_while(_)
\* Key_Value_Iterator::advance from its while loop on. (fread on a null
\* file_ptr is undefined behaviour; it is taken to crash.)
advance_while(it) ==
    IF it.buf_idx >= it.buf_elem_count
    THEN IF it.file_ptr = nullptr THEN [it EXCEPT !.exit = TRUE]
         ELSE
         LET chunk == fread(it, iter_buf_sz)
             it1 == [it EXCEPT !.rbuf = chunk \o SubSeq(@, Len(chunk) + 1, Len(@)),
                               !.buf_elem_count = Len(chunk),
                               !.buf_idx = 0,
                               !.f_off = @ + Len(chunk)]
         IN  IF Len(chunk) = 0
             THEN IF it.curr_p_id + 1 = partition_count
                  THEN [it1 EXCEPT !.curr_p_id = @ + 1, !.file_ptr = nullptr,
                                   !.at_end = TRUE]
                  ELSE LET it2 == set_file_handle([it1 EXCEPT !.curr_p_id = @ + 1],
                                                  it.curr_p_id + 1)
                       IN  IF it2.exit THEN it2 ELSE advance_while(it2)
             ELSE advance_while(it1)
    ELSE [it EXCEPT !.elem = it.rbuf[it.buf_idx + 1], !.buf_idx = @ + 1, !.pos = @ + 1]

\* Key_Value_Iterator::advance
advance(it) ==
    IF it.buf = nullptr
    THEN LET it1 == set_file_handle(it, 0)
         IN  IF it1.exit THEN it1 ELSE advance_while([it1 EXCEPT !.buf = it.handle])
    ELSE advance_while(it)

RECURSIVE advance_key_block_while(_, _)
\* Key_Value_Iterator::advance_key_block, its while loop.
advance_key_block_while(it, key) ==
    IF it.file_ptr # nullptr /\ it.elem[1] = key
    THEN LET it1 == advance(it)
         IN  IF it1.exit THEN it1 ELSE advance_key_block_while(it1, key)
    ELSE it

\* Key_Value_Iterator::advance_key_block
advance_key_block(it) ==
    LET it1 == IF it.buf = nullptr THEN advance(it) ELSE it
    IN  IF it1.exit THEN it1 ELSE advance_key_block_while(it1, it1.elem[1])

\* Key_Value_Iterator::operator*: the iterator after the call; the key
\* returned is its elem.first.
deref(it) == IF it.buf = nullptr THEN advance(it) ELSE it

\* Key_Value_Iterator::operator++
incr(it) == advance_key_block(it)

RECURSIVE read_while(_, _)
\* Key_Value_Iterator::read, its while loop: the iterator after it and the
\* pairs put into the caller's buffer. (fclose on a null file_ptr is undefined
\* behaviour; it is taken to crash.)
read_while(it, count) ==
    LET chunk == IF it.file_ptr # nullptr THEN fread(it, count) ELSE <<>>
        it1 == [it EXCEPT !.f_off = @ + Len(chunk)]
    IN  IF Len(chunk) = 0
        THEN IF it.curr_p_id + 1 = partition_count
             THEN [it |-> [it1 EXCEPT !.curr_p_id = @ + 1, !.file_ptr = nullptr,
                                      !.at_end = TRUE,
                                      !.exit = (it.file_ptr = nullptr)],
                   out |-> <<>>]
             ELSE LET it2 == set_file_handle([it1 EXCEPT !.curr_p_id = @ + 1],
                                             it.curr_p_id + 1)
                  IN  IF it2.exit THEN [it |-> it2, out |-> <<>>]
                      ELSE read_while(it2, count)
        ELSE [it |-> it1, out |-> chunk]

\* Key_Value_Iterator::read between lock.lock() and lock.unlock(): the
\* iterator after the call and the pairs read; their number is returned.
read(it, count) ==
    LET it0 == IF it.file_ptr = nullptr /\ ~it.at_end THEN set_file_handle(it, 0) ELSE it
        r == IF it0.exit THEN [it |-> it0, out |-> <<>>] ELSE read_while(it0, count)
    IN  [it |-> [r.it EXCEPT !.pos = @ + Len(r.out)], out |-> r.out]

\* The sequences a collated partition file of partition p may hold: sorted.
CollatedContents(p) ==
    LET pairs == {kv \in key_val_pair_t : get_partition_id(kv[1]) = p}
    IN  {s \in UNION { [1 .. n -> pairs] : n \in 0 .. MaxCollatedLen } : IsSorted(s)}

\* A collator after close_deposit_stream and collate returned.
CollatedCollator ==
    /\ \E files \in [Partitions -> UNION {CollatedContents(p) : p \in Partitions}] :
          /\ \A p \in Partitions : files[p] \in CollatedContents(p)
          /\ ClosedCollator(files)
    /\ thread_count = 1
    /\ kpc = "returned"
    /\ t_id = thread_count
    /\ worker = <<>>
    /\ processed = [p \in Partitions |-> << 0 >>]
    /\ file_at_collate = partition_file

\* The whole collection: the concatenation of the partition files 0..P-1.
Collection == Concat(partition_file, partition_count)

RECURSIVE DistinctKeys(_)
\* The keys of a sequence of pairs, each run of equal keys taken once.
DistinctKeys(s) ==
    IF s = <<>> THEN <<>>
    ELSE IF Len(s) >= 2 /\ s[1][1] = s[2][1] THEN DistinctKeys(Tail(s))
    ELSE << s[1][1] >> \o DistinctKeys(Tail(s))

\* ------------------------------------------------------ scalar iteration
\* SpecIter: is_correct's loop,
\*   it = begin(); end = end(); while(it != end) { vec_it.emplace_back(*it); ++it; }

InitIter ==
    /\ CollatedCollator
    /\ iter = [it |-> begin, end |-> end]
    /\ driver = [pc |-> "test", vec_it |-> <<>>, incs |-> 0]
    /\ readers = <<>>

\* while(it != end)
loop_test ==
    /\ ~aborted
    /\ driver.pc = "test"
    /\ driver' = [driver EXCEPT !.pc = IF iterator_neq(iter.it, iter.end)
                                       THEN "deref" ELSE "done"]
    /\ UNCHANGED << depositVars, dtor, partition_file, aborted, file_exists, collateVars,
                    iter, readers >>

\* vec_it.emplace_back(*it): the key is elem.first.
loop_deref ==
    /\ ~aborted
    /\ driver.pc = "deref"
    /\ LET it1 == deref(iter.it) IN
          /\ iter' = [iter EXCEPT !.it = it1]
          /\ aborted' = it1.exit
          /\ driver' = IF it1.exit THEN driver
                        ELSE [driver EXCEPT !.vec_it = Append(@, it1.elem[1]),
                                            !.pc = "incr"]
    /\ UNCHANGED << depositVars, dtor, partition_file, file_exists, collateVars, readers >>

\* ++it
loop_incr ==
    /\ ~aborted
    /\ driver.pc = "incr"
    /\ LET it1 == incr(iter.it) IN
          /\ iter' = [iter EXCEPT !.it = it1]
          /\ aborted' = it1.exit
          /\ driver' = [driver EXCEPT !.incs = @ + 1, !.pc = "test"]
    /\ UNCHANGED << depositVars, dtor, partition_file, file_exists, collateVars, readers >>

NextIter ==
    \/ loop_test
    \/ loop_deref
    \/ loop_incr

SpecIter == InitIter /\ [][NextIter]_vars

\* ---------------------------------------------------------- batched read
\* SpecRead: is_correct_batched_read's loop, run by one or by several threads
\* on one shared iterator,
\*   while((read_count = it.read(buf, N)) != 0) { ... }

\* At most MaxReaders threads read; a call asks for at most MaxReadCount pairs.
MaxReaders == 2
MaxReadCount == 2

Readers == 1 .. readers.count

InitRead ==
    /\ CollatedCollator
    /\ iter = [it |-> begin, end |-> end]
    /\ driver = <<>>
    /\ \E c \in 1 .. MaxReaders, n \in 0 .. MaxReadCount :
          readers = [count |-> c, n |-> n,
                     thr |-> [t \in 1 .. c |-> [pc |-> "call", rets |-> <<>>]],
                     delivered |-> <<>>]

\* Key_Value_Iterator::read, lock.lock()
read_lock(t) ==
    /\ ~aborted
    /\ readers.thr[t].pc = "call"
    /\ iter.it.lock = {}
    /\ iter' = [iter EXCEPT !.it.lock = {t}]
    /\ readers' = [readers EXCEPT !.thr[t].pc = "locked"]
    /\ UNCHANGED << depositVars, dtor, partition_file, aborted, file_exists, collateVars,
                    driver >>

\* Key_Value_Iterator::read from after lock.lock() to its return, and the
\* caller's loop test on the count returned. A call that exits the process
\* never unlocks.
read_body(t) ==
    /\ ~aborted
    /\ readers.thr[t].pc = "locked"
    /\ LET r == read(iter.it, readers.n) IN
          /\ aborted' = r.it.exit
          /\ IF r.it.exit
             THEN /\ iter' = [iter EXCEPT !.it = r.it]
                  /\ UNCHANGED readers
             ELSE /\ iter' = [iter EXCEPT !.it = [r.it EXCEPT !.lock = {}]]
                  /\ readers' = [readers EXCEPT
                        !.thr[t].rets = Append(@, Len(r.out)),
                        !.thr[t].pc = IF Len(r.out) = 0 THEN "done" ELSE "call",
                        !.delivered = @ \o r.out]
    /\ UNCHANGED << depositVars, dtor, partition_file, file_exists, collateVars, driver >>

NextRead ==
    \/ \E t \in Readers : read_lock(t)
    \/ \E t \in Readers : read_body(t)

SpecRead == InitRead /\ [][NextRead]_vars

\* ------------------------------------------------------- iteration claims

RECURSIVE Sum(_)
Sum(s) == IF s = <<>> THEN 0 ELSE Head(s) + Sum(Tail(s))

IsPrefix(s, t) == Len(s) <= Len(t) /\ s = SubSeq(t, 1, Len(s))

\* C5: for any collated collection, the empty one included, the loop
\* it = begin(); while (it != end()) { yield *it; ++it; } terminates (it takes
\* no more ++it steps than there are distinct keys), yields each distinct
\* deposited key exactly once and nothing else, no yielded key equals the one
\* yielded before it, and the ++it steps number the distinct keys.
C5_KeyGroupedIteration ==
    LET keys == DistinctKeys(Collection) IN
    /\ ~aborted
    /\ driver.incs <= Len(keys)
    /\ IsPrefix(driver.vec_it, keys)
    /\ \A i \in DOMAIN driver.vec_it : i > 1 => driver.vec_it[i] # driver.vec_it[i - 1]
    /\ \A i, j \in DOMAIN driver.vec_it : i # j => driver.vec_it[i] # driver.vec_it[j]
    /\ driver.pc = "done" => driver.vec_it = keys /\ driver.incs = Len(keys)

\* What the loop does on a collection of at least one pair: the statement of
\* C5 restricted to the non-empty collections.
KeyGroupedIterationNonEmpty == Collection # <<>> => C5_KeyGroupedIteration

\* The loop of C5 has run to its end over a collection with a key block of
\* several pairs and with keys in both partitions.
KeyGroupedIterationDone ==
    /\ driver.pc = "done"
    /\ Len(DistinctKeys(Collection)) < Len(Collection)
    /\ \A p \in Partitions : partition_file[p] # <<>>

\* The unmodified results of begin() and end(): neither has been advanced or
\* read from.
Fresh == iter.it = begin /\ iter.end = end

\* C8: for the unmodified results of begin() and end(), begin() != end()
\* holds iff the collection holds at least one pair; on the empty collection
\* begin() == end().
C8_FreshEquality ==
    Fresh => (iterator_neq(iter.it, iter.end) <=> Len(Collection) >= 1)

\* C6 as stated, for every N: a single caller that repeats read(buf, N) on a
\* begin() iterator until a call returns 0 stops after at most one call more
\* than there are pairs, no call returns more than N pairs, the batches
\* concatenated are a prefix of the partition files 0..P-1 concatenated, and
\* once the loop has ended they are all of it and the counts sum to its length.
C6_BatchedReadAnyCount ==
    readers.count = 1 =>
        LET r == readers.thr[1] IN
        /\ ~aborted
        /\ \A i \in DOMAIN r.rets : r.rets[i] <= readers.n
        /\ Len(r.rets) <= Len(Collection) + 1
        /\ r.pc = "call" => iter.it.lock = {}
        /\ Sum(r.rets) = Len(readers.delivered)
        /\ IsPrefix(readers.delivered, Collection)
        /\ r.pc = "done" =>
              /\ r.rets[Len(r.rets)] = 0
              /\ readers.delivered = Collection
              /\ Sum(r.rets) = Len(Collection)

\* C6, amended: the statement above for a single caller that asks for
\* N >= 1 pairs in each call.
C6_BatchedRead == readers.n >= 1 => C6_BatchedReadAnyCount

\* A single caller with N >= 1 has ended its loop over a collection that
\* took a call returning N pairs, a call returning fewer, and a change of
\* partition file.
C6_Witness ==
    /\ readers.count = 1
    /\ readers.n >= 1
    /\ readers.thr[1].pc = "done"
    /\ \A p \in Partitions : partition_file[p] # <<>>
    /\ \E i, j \in DOMAIN readers.thr[1].rets :
          /\ readers.thr[1].rets[i] = readers.n
          /\ readers.thr[1].rets[j] > 0
          /\ readers.thr[1].rets[j] < readers.n

\* C7: when several threads repeat read(buf_t, N), N >= 1, on one shared
\* iterator, each until its own call returns 0, no call aborts the process,
\* no pair is delivered more often than the collection holds it, and once
\* every thread's loop has ended each pair has been delivered exactly once
\* and every thread's last call returned 0.
C7_ThreadSafeRead ==
    (readers.count >= 2 /\ readers.n >= 1) =>
        /\ ~aborted
        /\ \A kv \in key_val_pair_t :
              Occ(readers.delivered, kv) <= Occ(Collection, kv)
        /\ (\A t \in Readers : readers.thr[t].pc = "done") =>
              /\ \A kv \in key_val_pair_t :
                    Occ(readers.delivered, kv) = Occ(Collection, kv)
              /\ \A t \in Readers :
                    readers.thr[t].rets[Len(readers.thr[t].rets)] = 0

\* What the shared iterator does keep under several readers with N >= 1: the
\* pairs delivered are a prefix of the collection, and the first call that
\* returns 0 returns it after every pair has been delivered.
SharedReadDelivery ==
    readers.n >= 1 =>
        /\ IsPrefix(readers.delivered, Collection)
        /\ (\E t \in Readers : readers.thr[t].pc = "done") =>
              readers.delivered = Collection

\* With two or more readers and N >= 1 the threads never all end their loops:
\* a call made after the call that returned 0 exits the process.
SharedReadNeverCompletes ==
    (readers.count >= 2 /\ readers.n >= 1) =>
        ~(\A t \in Readers : readers.thr[t].pc = "done")

\* ================================================= deposit: fair scheduling
\* SpecFair: the deposit phase with every thread scheduled again and again.
\* The producers, the mapper and a close_deposit_stream that has been invoked
\* keep taking their steps; nothing obliges the caller to invoke
\* close_deposit_stream.

\* close_deposit_stream past its first statement.
close_deposit_stream_running ==
    /\ cpc \notin {"open", "closed"}
    /\ close_deposit_stream

SpecFair ==
    /\ Init
    /\ [][Next]_vars
    /\ \A i \in Producers :
          /\ WF_vars(get_buffer_call(i))
          /\ WF_vars(get_buffer(i))
          /\ WF_vars(fill(i))
          /\ WF_vars(return_buffer(i))
    /\ WF_vars(map)
    /\ WF_vars(close_deposit_stream_running)

\* C11: whatever buf_count >= 1 is, and with more producers than buffers,
\* under fair scheduling every get_buffer call returns, every producer
\* makes all its deposits unless the stream is closed first, and a
\* close_deposit_stream that was invoked returns; each unless a flush fails
\* and the process exits.
C11_NoStarvation ==
    /\ \A i \in Producers : (pc[i] = "get_buffer") ~> (pc[i] = "fill" \/ aborted)
    /\ <>(aborted \/ cpc # "open" \/ \A i \in Producers : deposits[i] = MaxDeposits)
    /\ (cpc = "joinable_check") ~> (cpc = "closed" \/ aborted)

\* With a single staging buffer, a producer spins in get_buffer on the empty
\* free pool while the other producer holds the buffer.
C11_Witness ==
    /\ buf_count = 1
    /\ buf_count < NumProducers
    /\ \E i, j \in Producers :
          /\ i # j
          /\ pc[i] = "get_buffer"
          /\ size_["free"] = 0
          /\ Holds(j, 1)

\* ============================================================= destruction
\* SpecDestroy: the deposit phase, producers that go on depositing after
\* close_deposit_stream returned, and ~Key_Value_Collator invoked at any
\* moment at which no close_deposit_stream is running. The other threads are
\* followed while the collator is alive.

\* A producer calls get_buffer after close_deposit_stream returned.
get_buffer_call_closed(i) ==
    /\ ~aborted
    /\ Alive
    /\ pc[i] = "idle"
    /\ deposits[i] < MaxDeposits
    /\ cpc = "closed"
    /\ pc' = [pc EXCEPT ![i] = "get_buffer"]
    /\ UNCHANGED laterVars
    /\ UNCHANGED << buf_count, bufs, poolVars, buf_p, success, deposits, m_idx,
                    partVars, closeVars, returned, aborted >>

destructor_check_ignores_mapper ==
    full_buf_count > 0 \/ free_buf_count # buf_count
destructor_check_ignores_free ==
    full_buf_count > 0 \/ joinable
\* ~Key_Value_Collator, the condition of its first statement.
destructor_check ==
    full_buf_count > 0 \/ free_buf_count # buf_count \/ joinable

\* std::remove(partition_file_path(p_id)) of the destructor's loop: the file
\* is removed, or the removal fails and the process exits.
destructor_remove ==
    /\ dtor.pc = "remove"
    /\ \/ /\ file_exists[dtor.p_id]
          /\ file_exists' = [file_exists EXCEPT ![dtor.p_id] = FALSE]
          /\ dtor' = IF dtor.p_id + 1 = partition_count
                     THEN [dtor EXCEPT !.pc = "destructed"]
                     ELSE [dtor EXCEPT !.p_id = @ + 1]
          /\ UNCHANGED aborted
       \/ /\ aborted' = TRUE
          /\ UNCHANGED << file_exists, dtor >>
    /\ UNCHANGED poolVars

\* Key_Value_Collator::~Key_Value_Collator
destructor ==
    /\ ~aborted
    /\ \/ \* if(full_buf_count() > 0 || free_buf_count() != buf_count || joinable())
          /\ Alive
          /\ cpc \in {"open", "closed"}
          /\ IF destructor_check
             THEN aborted' = TRUE /\ dtor' = [dtor EXCEPT !.pc = "exit"]
             ELSE dtor' = [dtor EXCEPT !.pc = "release"] /\ UNCHANGED aborted
          /\ UNCHANGED << poolVars, file_exists >>
       \/ \* while(free_buf_count() > 0) { fetch_free_buf(buf_p); delete buf_p; }
          \* and, after the loop, delete mapper
          /\ dtor.pc = "release"
          /\ IF free_buf_count > 0
             THEN /\ lock_["free"] = {}
                  /\ pool' = [pool EXCEPT !["free"] = pop_back(@)]
                  /\ size_' = [size_ EXCEPT !["free"] = @ - 1]
                  /\ UNCHANGED << dtor, lock_ >>
             ELSE /\ dtor' = [dtor EXCEPT !.pc = "remove"]
                  /\ UNCHANGED poolVars
          /\ UNCHANGED << aborted, file_exists >>
       \/ destructor_remove
    /\ UNCHANGED << buf_count, bufs, pc, buf_p, success, deposits, m_idx, partVars,
                    closeVars, returned, collateVars, iterVars >>

NextDestroy ==
    \/ Alive /\ Next
    \/ \E i \in Producers : get_buffer_call_closed(i)
    \/ destructor

SpecDestroy == Init /\ [][NextDestroy]_vars

\* A buffer is in the full set, or not every buffer is in the free set, or
\* the mapper has not been joined.
Undestructible ==
    \/ pool["full"] # <<>>
    \/ Len(pool["free"]) # buf_count
    \/ joinable

\* C12: a destruction begun while a buffer is in the full set, or a buffer is
\* outside the free set, or the mapper is not joined, exits the process and
\* removes no partition file; begun otherwise it goes on, removes the
\* partition files one after the other, exits as soon as a removal fails,
\* and has removed all of them when it ends.
C12_Destruction ==
    /\ [][(Alive /\ ~Alive') =>
            /\ Undestructible => (aborted' /\ dtor'.pc = "exit")
            /\ ~Undestructible => (~aborted' /\ dtor'.pc = "release")
            /\ file_exists' = file_exists]_vars
    /\ [](dtor.pc = "exit" => \A p \in Partitions : file_exists[p])
    /\ [][(dtor.pc = "remove" /\ ~aborted) =>
            \/ aborted' /\ file_exists' = file_exists
            \/ ~aborted' /\ ~file_exists'[dtor.p_id]]_vars
    /\ [](dtor.pc = "destructed" => ~aborted /\ \A p \in Partitions : ~file_exists[p])

\* The destructor ended after every producer made a deposit.
C12_Witness ==
    /\ dtor.pc = "destructed"
    /\ \A i \in Producers : deposits[i] = 1

\* The destructor exited although the mapper had been joined: a producer that
\* deposited after the close left a buffer outside the free set.
DestructionRefusedAfterClose ==
    /\ dtor.pc = "exit"
    /\ ~joinable

\* ========================================================= iterator copies
\* SpecCopy: a thread uses the begin() iterator of a collated collator with
\* *it, ++it and read in any order, then copy-constructs an iterator from it
\* or from the unmodified end().

\* Key_Value_Iterator::Key_Value_Iterator(const Key_Value_Iterator& other);
\* `handle` names what the new iterator will allocate.
copy_constructor(handle, other) ==
    [handle |-> handle, file_ptr |-> other.file_ptr, f_pid |-> other.f_pid,
     f_off |-> other.f_off, curr_p_id |-> other.curr_p_id, pos |-> other.pos,
     at_end |-> other.at_end, buf |-> nullptr, rbuf |-> <<>>,
     buf_elem_count |-> other.buf_elem_count, buf_idx |-> other.buf_idx,
     elem |-> default_elem, lock |-> {},
     exit |-> (other.file_ptr # nullptr \/ other.buf # nullptr)]

InitCopy ==
    /\ CollatedCollator
    /\ iter = [it |-> begin, end |-> end]
    /\ driver = [pc |-> "use", used |-> {}, src |-> "none"]
    /\ readers = <<>>

\* *it
use_deref ==
    /\ ~aborted
    /\ driver.pc = "use"
    /\ LET it1 == deref(iter.it) IN
          /\ iter' = [iter EXCEPT !.it = it1]
          /\ aborted' = it1.exit
    /\ driver' = [driver EXCEPT !.used = @ \cup {"deref"}]
    /\ UNCHANGED << depositVars, dtor, partition_file, file_exists, collateVars, readers >>

\* ++it
use_incr ==
    /\ ~aborted
    /\ driver.pc = "use"
    /\ LET it1 == incr(iter.it) IN
          /\ iter' = [iter EXCEPT !.it = it1]
          /\ aborted' = it1.exit
    /\ driver' = [driver EXCEPT !.used = @ \cup {"incr"}]
    /\ UNCHANGED << depositVars, dtor, partition_file, file_exists, collateVars, readers >>

\* it.read(buf, count)
use_read ==
    /\ ~aborted
    /\ driver.pc = "use"
    /\ \E count \in 1 .. MaxReadCount :
          LET r == read(iter.it, count) IN
          /\ iter' = [iter EXCEPT !.it = r.it]
          /\ aborted' = r.it.exit
    /\ driver' = [driver EXCEPT !.used = @ \cup {"read"}]
    /\ UNCHANGED << depositVars, dtor, partition_file, file_exists, collateVars, readers >>

\* iter_t cp(it); or iter_t cp(end);
copy_construct ==
    /\ ~aborted
    /\ driver.pc = "use"
    /\ \E src \in {"it", "end"} :
          LET cp == copy_constructor(3, iter[src]) IN
          /\ iter' = [it |-> iter.it, end |-> iter.end, cp |-> cp]
          /\ aborted' = cp.exit
          /\ driver' = [driver EXCEPT !.pc = "copied", !.src = src]
    /\ UNCHANGED << depositVars, dtor, partition_file, file_exists, collateVars, readers >>

NextCopy ==
    \/ use_deref
    \/ use_incr
    \/ use_read
    \/ copy_construct

SpecCopy == InitCopy /\ [][NextCopy]_vars

\* The iterator a copy was made from has been modified.
CopiedFromUsed == driver.src = "it" /\ driver.used # {}

\* C13: a copy construction succeeds iff its source is an unmodified result of
\* begin() or end(); a copy made from an iterator on which *it, ++it or read
\* was performed exits the process, also when that iterator has reached the
\* end since.
C13_CopyRestriction ==
    driver.pc = "copied" => (aborted <=> CopiedFromUsed)

\* What the copy constructor does keep: a copy of an unmodified iterator
\* succeeds and equals its source, and a copy made after *it or ++it, or in
\* the middle of reading, exits the process.
CopyChecksHandleAndBuffer ==
    driver.pc = "copied" =>
        /\ ~CopiedFromUsed => (~aborted /\ iterator_eq(iter.cp, iter[driver.src]))
        /\ (driver.src = "it" /\ driver.used \cap {"deref", "incr"} # {}) => aborted
        /\ (driver.src = "it" /\ iter.it.file_ptr # nullptr) => aborted

\* A copy was made without an exit of an iterator that read had taken to the
\* end of a collection of at least one pair.
CopyOfExhaustedReader ==
    /\ driver.pc = "copied"
    /\ ~aborted
    /\ driver.src = "it"
    /\ driver.used = {"read"}
    /\ iter.cp.at_end
    /\ iter.cp.pos = Len(Collection)
    /\ Len(Collection) >= 1

\* ===================================================== collate: I/O faults
\* SpecCollateFaults: collate(thread_count) where, besides the write, the
\* stat, the read and the removal of a worker's second loop may fail. The
\* field `fault` of a worker records the failed steps it went on after.

\* The worker lambda: p_bytes = file_size(p_path) where stat fails: the lambda
\* file_size returns 0.
worker_stat_fails(w) ==
    /\ worker[w].pc = "stat"
    /\ worker' = [worker EXCEPT ![w].p_bytes = 0,
                                ![w].fault = @ \cup {"stat"},
                                ![w].pc = "read"]
    /\ UNCHANGED << partition_file, file_exists, processed, aborted >>

\* The worker lambda: input.read(p_data, p_bytes) fails and the process exits.
worker_read_fails(w) ==
    /\ worker[w].pc = "read"
    /\ aborted' = TRUE
    /\ UNCHANGED << partition_file, file_exists, processed, worker >>

\* The worker lambda: std::remove(p_path) fails; its result is not looked at.
worker_remove_fails(w) ==
    /\ worker[w].pc = "remove"
    /\ worker' = [worker EXCEPT ![w].fault = @ \cup {"remove"},
                                ![w].pc = "write"]
    /\ UNCHANGED << partition_file, file_exists, processed, aborted >>

\* One failing step of a collate worker.
collate_worker_fault(w) ==
    /\ ~aborted
    /\ \/ worker_stat_fails(w)
       \/ worker_read_fails(w)
       \/ worker_remove_fails(w)
    /\ UNCHANGED << depositVars, dtor, thread_count, kpc, t_id, file_at_collate, iterVars >>

NextCollateFaults ==
    \/ NextCollate
    \/ \E w \in Workers : collate_worker_fault(w)

SpecCollateFaults == InitCollate /\ [][NextCollateFaults]_vars

\* C14: in a collate worker a failed stat, read, removal or write of a
\* partition file exits the process: no worker goes on after a failed step,
\* and collate does not return after one.
C14_FailFast ==
    /\ \A w \in Workers : worker[w].fault # {} => aborted
    /\ kpc = "returned" => \A w \in Workers : worker[w].fault = {}

\* What the worker does keep: a failed read or write exits the process, and
\* a failed removal loses nothing, the file being truncated when it is opened
\* for the output.
StatFaultOnlyLoss ==
    (kpc = "returned" /\ \A w \in Workers : "stat" \notin worker[w].fault) =>
        \A p \in Partitions :
            processed[p] # <<>> =>
                /\ IsSorted(partition_file[p])
                /\ \A kv \in key_val_pair_t :
                      Occ(partition_file[p], kv) = Occ(file_at_collate[p], kv)

\* collate returned after a stat failed, and the pairs of a partition file are
\* gone: the partition was sorted and rewritten as an empty one.
SilentLoss ==
    /\ kpc = "returned"
    /\ ~aborted
    /\ \E p \in Partitions :
          /\ file_at_collate[p] # <<>>
          /\ partition_file[p] = <<>>
          /\ file_exists[p]

\* ============================================================ close: claims
\* C15: close_deposit_stream sets stream_incoming to false for good, joins
\* the mapper, and flushes every non-empty partition buffer in a loop over all
\* the partitions; invoked when the mapper is not joinable it exits the
\* process and leaves the partition buffers and files as they are; and each
\* of its flushes appends the whole partition buffer to the file and empties
\* it, or exits the process.
C15_CloseOneShot ==
    /\ [][~stream_incoming => ~stream_incoming']_vars
    /\ [](cpc # "open" => ~stream_incoming)
    /\ [](cpc \in {"flush", "closed"} => (~joinable /\ pc[Mapper] = "exited"))
    /\ [](cpc = "closed" =>
            (c_pid = partition_count /\ \A p \in Partitions : partition_buf[p] = <<>>))
    /\ [][(cpc = "joinable_check" /\ ~joinable) =>
            (aborted' /\ partition_file' = partition_file
                      /\ partition_buf' = partition_buf)]_vars
    /\ [][(cpc = "flush" /\ c_pid' # c_pid) =>
            \/ aborted' /\ partition_file' = partition_file
            \/ /\ ~aborted'
               /\ partition_buf'[c_pid] = <<>>
               /\ partition_file'[c_pid] = partition_file[c_pid] \o partition_buf[c_pid]
               /\ \A p \in Partitions \ {c_pid} :
                     /\ partition_buf'[p] = partition_buf[p]
                     /\ partition_file'[p] = partition_file[p]]_vars

\* A second close_deposit_stream exited the process, after the first one had
\* flushed partition buffers to both files.
C15_Witness ==
    /\ aborted
    /\ cpc = "joinable_check"
    /\ ~joinable
    /\ \A p \in Partitions : partition_file[p] # <<>>

\* ======================================================== iteration order
RECURSIVE DistinctKeysByPartition(_)
\* The distinct keys of partition file 0, then of 1, ..., then of n - 1.
DistinctKeysByPartition(n) ==
    IF n = 0 THEN <<>>
    ELSE DistinctKeysByPartition(n - 1) \o DistinctKeys(partition_file[n - 1])

\* C16: the keys yielded by the scalar iteration from begin() to end() are
\* the distinct keys of partition 0, then those of partition 1, ..., then
\* those of partition P-1; the partition ids H(k) AND (P-1) of successive
\* yielded keys do not decrease, and within one partition the yielded keys
\* increase strictly.
C16_PartitionMajorOrder ==
    LET v == driver.vec_it
        pid(k) == BitAnd(hash(k), partition_count - 1)
    IN  /\ IsPrefix(v, DistinctKeysByPartition(partition_count))
        /\ driver.pc = "done" => v = DistinctKeysByPartition(partition_count)
        /\ \A i \in DOMAIN v : i > 1 =>
              /\ pid(v[i - 1]) <= pid(v[i])
              /\ pid(v[i - 1]) = pid(v[i]) => v[i - 1] < v[i]

\* The order of C16 on the collections of at least one pair.
PartitionMajorOrderNonEmpty == Collection # <<>> => C16_PartitionMajorOrder

\* The iteration ended after it yielded a key of partition 1 that is smaller
\* than a key of partition 0 yielded before it, and two keys of partition 0.
PartitionMajorOrderDone ==
    /\ driver.pc = "done"
    /\ \E i, j \in DOMAIN driver.vec_it : i < j /\ driver.vec_it[i] > driver.vec_it[j]
    /\ \E i, j \in DOMAIN driver.vec_it :
          /\ i < j
          /\ get_partition_id(driver.vec_it[i]) = get_partition_id(driver.vec_it[j])

\* ================================================ partition buffers: claims
\* The partition a routing step of the mapper appends to.
RoutedPartition == get_partition_id(bufs[buf_p[Mapper]][m_idx][1])

\* C17: no partition buffer ever holds more than T = partition_buf_elem_th
\* pairs, and between two routing steps each holds fewer than T; a routing
\* step flushes exactly when its append brings the buffer to T pairs, and a
\* flush of the mapper writes exactly T pairs to the file of that partition
\* and leaves its buffer empty.
C17_PartitionBufferBound ==
    /\ [](\A p \in Partitions : Len(partition_buf[p]) <= partition_buf_elem_th)
    /\ [](~aborted => \A p \in Partitions : Len(partition_buf[p]) < partition_buf_elem_th)
    /\ [][(pc[Mapper] = "map_buffer" /\ m_idx' = m_idx + 1) =>
            LET p == RoutedPartition
                full == Len(partition_buf[p]) + 1 = partition_buf_elem_th
            IN  /\ full <=> (aborted' \/ partition_file' # partition_file)
                /\ (full /\ ~aborted') =>
                      /\ partition_buf'[p] = <<>>
                      /\ Len(partition_file'[p]) = Len(partition_file[p]) + partition_buf_elem_th
                      /\ partition_file'[p] =
                            partition_file[p] \o Append(partition_buf[p], bufs[buf_p[Mapper]][m_idx])
                /\ ~full => partition_buf'[p] = Append(partition_buf[p], bufs[buf_p[Mapper]][m_idx])
                /\ \A q \in Partitions \ {p} :
                      /\ partition_buf'[q] = partition_buf[q]
                      /\ partition_file'[q] = partition_file[q]]_vars

\* The mapper, in the middle of a staging buffer, has flushed a partition
\* buffer of T pairs and has begun to fill it again.
C17_Witness ==
    /\ pc[Mapper] = "map_buffer"
    /\ ~aborted
    /\ \E p \in Partitions :
          /\ Len(partition_file[p]) = partition_buf_elem_th
          /\ Len(partition_buf[p]) = partition_buf_elem_th - 1

\* ========================================================= pair accounting
RECURSIVE SumOver(_, _)
\* The sum of f[x] over the finite set S.
SumOver(f, S) ==
    IF S = {} THEN 0
    ELSE LET x == CHOOSE y \in S : TRUE IN f[x] + SumOver(f, S \ {x})

\* How often the pair kv is in a staging buffer that was passed to
\* return_buffer and that the mapper has not routed yet: in a buffer on its
\* way into the full set, in the full set, fetched by the mapper, or in the
\* part of the buffer being routed that lies at or after m_idx.
Undrained(kv) ==
    LET inPush == {i \in Producers : pc[i] \in {"push_lock", "push_emplace_back"}}
        mapperBuf == bufs[buf_p[Mapper]]
    IN  SumOver([i \in inPush |-> Occ(bufs[buf_p[i]], kv)], inPush)
        + SumOver([j \in DOMAIN pool["full"] |-> Occ(bufs[pool["full"][j]], kv)],
                  DOMAIN pool["full"])
        + (IF pc[Mapper] = "fetch_unlock" /\ success[Mapper]
           THEN Occ(mapperBuf, kv)
           ELSE IF pc[Mapper] = "map_buffer"
           THEN Occ(SubSeq(mapperBuf, m_idx, Len(mapperBuf)), kv)
           ELSE 0)

\* How often the mapper has drained the pair kv from a full buffer.
Drained(kv) == returned[kv] - Undrained(kv)

\* C18: between routing steps the pairs the mapper has drained from full
\* buffers are, as a multiset, the pairs in the partition files together with
\* the pairs in the partition buffers; once close_deposit_stream has returned
\* the partition buffers are empty and all of them are in the files.
C18_PairAccounting ==
    /\ \A kv \in DepositPairs : Drained(kv) = Occ(OnDisk, kv) + Occ(InMemory, kv)
    /\ SumOver([kv \in DepositPairs |-> Drained(kv)], DepositPairs)
          = Len(OnDisk) + Len(InMemory)
    /\ cpc = "closed" =>
          /\ \A p \in Partitions : partition_buf[p] = <<>>
          /\ \A kv \in DepositPairs : Drained(kv) = Occ(OnDisk, kv)

\* In the middle of the stream there are pairs in a partition file, in a
\* partition buffer, in the buffer being routed and in the full set.
C18_Witness ==
    /\ cpc = "open"
    /\ OnDisk # <<>>
    /\ InMemory # <<>>
    /\ pc[Mapper] = "map_buffer"
    /\ m_idx = 2
    /\ Len(bufs[buf_p[Mapper]]) = 2
    /\ \E kv \in DepositPairs : Undrained(kv) >= 1

\* ========================================================== routing order
\* All the pairs routed to partition p so far, in the order they will have
\* in its file before collation: the file, then the partition buffer.
Routed(p) == partition_file[p] \o partition_buf[p]

RECURSIVE OfPartition(_, _)
\* The pairs of the sequence s that map to partition p, in their order.
OfPartition(s, p) ==
    IF s = <<>> THEN <<>>
    ELSE IF BitAnd(hash(Head(s)[1]), partition_count - 1) = p
         THEN << Head(s) >> \o OfPartition(Tail(s), p)
         ELSE OfPartition(Tail(s), p)

IsSuffix(s, t) == Len(s) <= Len(t) /\ s = SubSeq(t, Len(t) - Len(s) + 1, Len(t))

\* C19: the pairs of one returned buffer that map to one partition reach
\* that partition in the order they have in the buffer, and contiguously:
\* while the mapper routes a buffer, and until it clears it, the pairs of the
\* routed part that map to partition p are the last pairs routed to p, in
\* buffer order; and what was routed to a partition stays as it is, later
\* pairs being added after it.
C19_IntraBufferOrder ==
    /\ [](pc[Mapper] \in {"map_buffer", "clear"} =>
            LET buf == bufs[buf_p[Mapper]] IN
            \A p \in Partitions :
                IsSuffix(OfPartition(SubSeq(buf, 1, m_idx - 1), p), Routed(p)))
    /\ [][\A p \in Partitions : IsPrefix(Routed(p), Routed(p)')]_vars
    /\ [][pc[Mapper] = "map_buffer" =>
            /\ m_idx' \in {m_idx, m_idx + 1}
            /\ pc'[Mapper] = "map_buffer" =>
                  (buf_p'[Mapper] = buf_p[Mapper]
                     /\ bufs'[buf_p[Mapper]] = bufs[buf_p[Mapper]])]_vars

\* The mapper has routed the whole of a buffer of two pairs of partition 0
\* whose keys decrease, after a pair of another buffer: the two pairs end
\* what was routed to partition 0, in buffer order.
C19_Witness ==
    /\ pc[Mapper] = "clear"
    /\ ~aborted
    /\ bufs[buf_p[Mapper]] = << << 2, 0 >>, << 0, 0 >> >>
    /\ Len(Routed(0)) >= 3
    /\ IsSuffix(<< << 2, 0 >>, << 0, 0 >> >>, Routed(0))

\* The mapper is about to take a buffer from the full set while two buffers
\* are in it: Object_Pool::fetch takes pool.back(), the buffer returned last.
LastReturnedFetchedFirst ==
    /\ pc[Mapper] = "fetch_pop"
    /\ Len(pool["full"]) = 2

\* ============================================================ mapper: exit
\* C20: the mapper leaves its loop only when stream_incoming is false and
\* it reads a full count of 0; when it has left, every buffer passed to
\* return_buffer before the close has been fetched, routed to the end,
\* cleared and pushed to the free set; and once close_deposit_stream has been
\* invoked the mapper does leave its loop, unless a flush fails and the
\* process exits.
C20_DrainBeforeExit ==
    /\ [][(pc[Mapper] # "exited" /\ pc'[Mapper] = "exited") =>
            (~stream_incoming /\ full_buf_count = 0 /\ pc[Mapper] = "map_full_count")]_vars
    /\ [](pc[Mapper] = "exited" =>
            /\ pool["full"] = <<>>
            /\ Len(pool["free"]) = buf_count
            /\ \A b \in 1 .. buf_count : bufs[b] = <<>>
            /\ \A kv \in DepositPairs :
                  /\ Undrained(kv) = 0
                  /\ returned[kv] = Occ(OnDisk, kv) + Occ(InMemory, kv))
    /\ (cpc = "joinable_check") ~> (pc[Mapper] = "exited" \/ aborted)

\* The mapper has left its loop after it drained the buffers of both
\* producers, and close_deposit_stream waits to join it.
C20_Witness ==
    /\ pc[Mapper] = "exited"
    /\ cpc = "join"
    /\ \A i \in Producers : deposits[i] = 1
    /\ Len(OnDisk) + Len(InMemory) >= 3

\* ============================================================ free buffers
\* A producer has a buffer that get_buffer handed out and has put nothing
\* into it yet.
HandedOut(i) ==
    \/ pc[i] = "fill"
    \/ pc[i] = "fetch_unlock" /\ success[i]

\* C21: every staging buffer in the free set holds no pair, the buffer the
\* mapper is pushing to the free set holds none, and every buffer get_buffer
\* hands out holds none, so that what a producer passes to return_buffer is
\* what it put into the buffer since it got it.
C21_FreeBuffersEmpty ==
    /\ \A j \in DOMAIN pool["free"] : bufs[pool["free"][j]] = <<>>
    /\ pc[Mapper] \in {"push_lock", "push_emplace_back", "push_fetch_add", "push_unlock"} =>
          bufs[buf_p[Mapper]] = <<>>
    /\ \A i \in Producers : HandedOut(i) => bufs[buf_p[i]] = <<>>

\* With a single staging buffer, a producer is handed the buffer that the
\* other producer returned with pairs in it and that the mapper drained.
C21_Witness ==
    /\ buf_count = 1
    /\ \E i, j \in Producers :
          /\ i # j
          /\ pc[i] = "fill"
          /\ deposits[j] = 1
          /\ bufs[buf_p[i]] = <<>>
    /\ Len(OnDisk) + Len(InMemory) >= 1

\* ============================================================= Object_Pool
Pools == {"free", "full"}

\* C22: in each of the two Object_Pools, with pushes and fetches of several
\* threads interleaved, the counter size_ is never below 0 and never above
\* the number of handles stored, and equals it whenever the lock is free; a
\* fetch that finds a handle under the lock takes the last one of the vector
\* (pushes append, so it is the one pushed last among those present),
\* decrements the counter and returns true, a fetch that finds none changes
\* nothing and returns false; and every handle is in exactly one place, so
\* none is fetched twice and none is lost.
C22_PoolConsistency ==
    /\ [](\A q \in Pools :
            /\ size_[q] >= 0
            /\ size_[q] <= Len(pool[q])
            /\ lock_[q] = {} => size_[q] = Len(pool[q])
            /\ \A i, j \in DOMAIN pool[q] : i # j => pool[q][i] # pool[q][j])
    /\ [](\A b \in 1 .. buf_count : Places(b) = 1)
    /\ [][\A t \in Threads :
            LET q == FetchPool(t) IN
            (pc[t] = "fetch_pop" /\ pc'[t] = "fetch_unlock") =>
                IF pool[q] # <<>>
                THEN /\ success'[t]
                     /\ buf_p'[t] = pool[q][Len(pool[q])]
                     /\ pool'[q] = SubSeq(pool[q], 1, Len(pool[q]) - 1)
                     /\ size_'[q] = size_[q] - 1
                ELSE /\ ~success'[t]
                     /\ buf_p' = buf_p
                     /\ pool' = pool
                     /\ size_' = size_]_vars
    /\ [][\A t \in Threads :
            (pc[t] = "fetch_unlock" /\ pc'[t] # "fetch_unlock") =>
                /\ pc'[t] \in {"fill", "map_buffer"} <=> success[t]
                /\ pool' = pool
                /\ size_' = size_]_vars
    /\ [][\A t \in Threads :
            (pc[t] \in {"get_buffer", "fetch"} /\ pc'[t] \notin {pc[t], "fetch_lock"}) =>
                (pool' = pool /\ size_' = size_)]_vars
    /\ [][\A t \in Threads :
            (pc[t] = "push_emplace_back" /\ pc'[t] = "push_fetch_add") =>
                pool'[PushPool(t)] = Append(pool[PushPool(t)], buf_p[t])]_vars

\* A producer's fetch passed the empty() check, took the lock and found the
\* free pool empty, the other producer having taken the only buffer in
\* between.
C22_Witness ==
    \E i \in Producers :
        /\ pc[i] = "fetch_unlock"
        /\ ~success[i]
        /\ pool["free"] = <<>>

\* =============================================================== lifecycle
\* SpecLife: the deposit phase followed by collate(thread_count), which the
\* driver invokes once close_deposit_stream has returned.

\* The driver calls collate(thread_count) on the closed collator.
collate_call ==
    /\ ~aborted
    /\ cpc = "closed"
    /\ kpc = "idle"
    /\ \E n \in 0 .. MaxThreads : thread_count' = n
    /\ kpc' = "spawn"
    /\ t_id' = 0
    /\ worker' = [w \in Workers |->
                    [pc |-> "unstarted", init_id |-> 0, stride |-> 0, p_id |-> 0,
                     buf_sz |-> 0, p_bytes |-> 0, elem_count |-> 0, p_data |-> <<>>,
                     fault |-> {}]]
    /\ file_at_collate' = partition_file
    /\ UNCHANGED << depositVars, dtor, partition_file, aborted, file_exists, processed,
                    iterVars >>

NextLife ==
    \/ Next
    \/ collate_call
    \/ kpc # "idle" /\ NextCollate

SpecLife == Init /\ [][NextLife]_vars

\* The threads that are in a part of their code that mutates partition p (its
\* buffer or its file): the mapper while it routes a buffer, the thread in
\* the flush loop of close_deposit_stream, and a collate worker between the
\* stat and the rewriting of file p.
Accessors(p) ==
    (IF pc[Mapper] = "map_buffer" THEN {"mapper"} ELSE {})
    \cup (IF cpc = "flush" THEN {"closer"} ELSE {})
    \cup (IF kpc = "idle" THEN {}
          ELSE {w \in Workers :
                  /\ worker[w].pc \in {"stat", "read", "sort", "remove", "write"}
                  /\ worker[w].p_id = p})

\* Partition p changes in this step: its buffer, its file or the file's existence.
PartitionChanges(p) ==
    \/ partition_buf'[p] # partition_buf[p]
    \/ partition_file'[p] # partition_file[p]
    \/ file_exists'[p] # file_exists[p]

\* C23: at no moment are two threads in code that mutates the same partition
\* buffer or file; while the stream is open a partition changes only in a
\* routing step of the mapper, the closing thread flushes only after the
\* mapper has left map and has been joined, and during collate file p is
\* removed and rewritten only by the worker p mod thread_count, which alone
\* works on p; the one mapper thread, once it has ended, never runs again.
C23_ExclusivePartitionAccess ==
    /\ [](\A p \in Partitions : Cardinality(Accessors(p)) <= 1)
    /\ [](cpc = "flush" => (pc[Mapper] = "exited" /\ ~joinable))
    /\ [](kpc # "idle" => (pc[Mapper] = "exited" /\ ~joinable /\ cpc # "flush"))
    /\ [][\A p \in Partitions :
            (kpc = "idle" /\ PartitionChanges(p)) =>
                \/ pc[Mapper] = "map_buffer" /\ p = RoutedPartition /\ m_idx' = m_idx + 1
                \/ cpc = "flush" /\ p = c_pid /\ c_pid' = c_pid + 1]_vars
    /\ [][\A p \in Partitions :
            (kpc # "idle" /\ PartitionChanges(p)) =>
                /\ partition_buf'[p] = partition_buf[p]
                /\ thread_count >= 1
                /\ LET w == p % thread_count IN
                      /\ worker[w].pc \in {"remove", "write"}
                      /\ worker[w].p_id = p
                      /\ worker'[w] # worker[w]
                      /\ \A v \in Workers \ {w} : worker'[v] = worker[v]]_vars
    /\ [](\A w \in Workers : \A p \in Partitions :
            (kpc # "idle" /\ w \in Accessors(p)) => (thread_count >= 1 /\ w = p % thread_count))
    /\ [][pc[Mapper] = "exited" => pc'[Mapper] = "exited"]_vars
    /\ [][~joinable => ~joinable']_vars

\* Two collate workers are at work at the same time, each between the
\* removal and the rewriting of its own partition file, on files that the
\* mapper and the closing thread wrote.
C23_Witness ==
    /\ kpc = "join"
    /\ thread_count = 2
    /\ \A w \in {0, 1} : worker[w].pc = "write" /\ worker[w].p_id = w
    /\ \A p \in Partitions : file_at_collate[p] # <<>>

\* ==================================================== collate: the content
\* C24: when collate has returned, every partition file exists and holds, as
\* a multiset, the pairs it held when collate was invoked (the same number
\* of pairs, each pair as often), so that the files together hold as many
\* pairs as were deposited.
C24_ContentPreserved ==
    kpc = "returned" =>
        /\ \A p \in Partitions :
              /\ file_exists[p]
              /\ Len(partition_file[p]) = Len(file_at_collate[p])
              /\ \A kv \in key_val_pair_t :
                    Occ(partition_file[p], kv) = Occ(file_at_collate[p], kv)
        /\ Len(OnDisk) = SumOver(returned, key_val_pair_t)

\* What collate does keep: the content of every file is preserved whenever
\* no stat of a worker's second loop has failed, a failed removal included.
ContentPreservedWithoutStatFault ==
    (\A w \in Workers : "stat" \notin worker[w].fault) => C24_ContentPreserved

\* collate(2) returned without a failed stat after both workers sorted a file
\* of two pairs that were out of order.
ContentPreservedSorted ==
    /\ kpc = "returned"
    /\ thread_count = 2
    /\ \A w \in Workers : "stat" \notin worker[w].fault
    /\ \A p \in Partitions :
          /\ ~IsSorted(file_at_collate[p])
          /\ Len(partition_file[p]) = 2

\* ===================================================== read after the end
\* SpecReread: the threads of SpecRead, each of which may call read again
\* after a call of its own has returned 0.

\* A thread calls read at most MaxCallsAfterEnd times after a call of its own
\* has returned 0.
MaxCallsAfterEnd == 2

\* A thread whose read returned 0 calls read once more.
read_again(t) ==
    /\ ~aborted
    /\ readers.thr[t].pc = "done"
    /\ Occ(readers.thr[t].rets, 0) <= MaxCallsAfterEnd
    /\ readers' = [readers EXCEPT !.thr[t].pc = "call"]
    /\ UNCHANGED << depositVars, dtor, partition_file, aborted, file_exists, collateVars,
                    iter, driver >>

NextReread ==
    \/ NextRead
    \/ \E t \in Readers : read_again(t)

SpecReread == InitRead /\ [][NextReread]_vars

\* A read call on the shared iterator has returned 0.
EndSeen == \E t \in Readers : \E i \in DOMAIN readers.thr[t].rets : readers.thr[t].rets[i] = 0

\* How many read calls have returned 0.
EndReturns == SumOver([t \in Readers |-> Occ(readers.thr[t].rets, 0)], Readers)

\* C25: once a read call on an iterator has returned 0, no later read call on
\* it, by the same or by another thread, exits the process; each returns 0
\* and delivers nothing, and the iterator stays at the end with no file open
\* and with pair_index at the number of pairs delivered.
C25_EndStable ==
    EndSeen =>
        /\ ~aborted
        /\ iter.it.at_end
        /\ iter.it.file_ptr = nullptr
        /\ iter.it.pos = Len(readers.delivered)
        /\ \A t \in Readers : \A i, j \in DOMAIN readers.thr[t].rets :
              (i < j /\ readers.thr[t].rets[i] = 0) => readers.thr[t].rets[j] = 0

\* What read does keep: the call that returns 0 leaves the iterator at the
\* end with no file open, curr_p_id at the partition count and pair_index at
\* the number of pairs delivered; and no second call ever returns 0, every
\* call made after that one exits the process.
EndReturnedOnce ==
    /\ EndReturns <= 1
    /\ (EndSeen /\ ~aborted) =>
          /\ iter.it.at_end
          /\ iter.it.file_ptr = nullptr
          /\ iter.it.curr_p_id = partition_count
          /\ iter.it.pos = Len(readers.delivered)
    /\ (EndSeen /\ readers.n >= 1) => readers.delivered = Collection

\* A single thread read a collection of at least two pairs to its end, called
\* read again, and the process exited.
RereadExits ==
    /\ readers.count = 1
    /\ readers.n >= 1
    /\ readers.thr[1].rets # <<>>
    /\ readers.thr[1].rets[Len(readers.thr[1].rets)] = 0
    /\ readers.thr[1].pc = "locked"
    /\ aborted
    /\ Len(Collection) >= 2

\* ========================================================== read on end()
\* SpecReadEnd: a thread calls read(buf, N) once on the unmodified result of
\* end() of a collated collator.

InitReadEnd ==
    /\ CollatedCollator
    /\ iter = [it |-> begin, end |-> end]
    /\ \E n \in 0 .. MaxReadCount :
          driver = [pc |-> "call", n |-> n, ret |-> 0, out |-> <<>>]
    /\ readers = <<>>

\* end.read(buf, n): the whole call, from lock.lock() to the return.
read_end ==
    /\ ~aborted
    /\ driver.pc = "call"
    /\ iter.end.lock = {}
    /\ LET r == read(iter.end, driver.n) IN
          /\ iter' = [iter EXCEPT !.end = r.it]
          /\ aborted' = r.it.exit
          /\ driver' = [driver EXCEPT !.pc = IF r.it.exit THEN "exit" ELSE "returned",
                                      !.ret = Len(r.out),
                                      !.out = r.out]
    /\ UNCHANGED << depositVars, dtor, partition_file, file_exists, collateVars, readers >>

NextReadEnd == read_end

SpecReadEnd == InitReadEnd /\ [][NextReadEnd]_vars

\* C26: read(buf, N) on an unmodified result of end() returns 0, puts no pair
\* of any partition file into buf, does not exit the process, and leaves the
\* iterator equal to end().
C26_ReadOnEnd ==
    driver.pc # "call" =>
        /\ ~aborted
        /\ driver.ret = 0
        /\ driver.out = <<>>
        /\ iterator_eq(iter.end, end)

\* What read does on end(): it passes over partition 0 and goes on with
\* partition 1. It delivers the first pairs of the first non-empty file among
\* the files 1..P-1, and returns 0, leaving the iterator equal to end(), only
\* when N is 0 or all those files are empty.
ReadOnEndSkipsPartitionZero ==
    driver.pc # "call" =>
        /\ ~aborted
        /\ driver.ret = Len(driver.out)
        /\ driver.out = <<>> =>
              /\ driver.n = 0 \/ \A p \in Partitions \ {0} : partition_file[p] = <<>>
              /\ iterator_eq(iter.end, end)
        /\ driver.out # <<>> =>
              \E p \in Partitions \ {0} :
                  /\ driver.out = SubSeq(partition_file[p], 1, Min(driver.n, Len(partition_file[p])))
                  /\ \A q \in 1 .. (p - 1) : partition_file[q] = <<>>
                  /\ iter.end.file_ptr # nullptr
                  /\ iter.end.pos = Len(driver.out)

\* read on end() delivered two pairs of partition 1 of a collection that
\* holds pairs in partition 0 as well.
ReadOnEndDelivers ==
    /\ driver.pc = "returned"
    /\ driver.ret = 2
    /\ partition_file[0] # <<>>
    /\ iterator_neq(iter.end, end)

\* ===================================================== exhausted iterators
\* SpecExhaust: a thread takes the begin() iterator of a collated collator to
\* the end, with *it and ++it in a loop while(it != end), or with read(buf, N)
\* until a call returns 0, and then applies ++it once more. The field
\* `before` of the driver keeps the iterator as it was before that ++it.

InitExhaust ==
    /\ CollatedCollator
    /\ iter = [it |-> begin, end |-> end]
    /\ \E mode \in {"scalar", "read"}, n \in 0 .. MaxReadCount :
          /\ mode = "scalar" => n = 0
          /\ driver = [pc |-> "loop", mode |-> mode, n |-> n, before |-> begin]
    /\ readers = <<>>

\* while(it != end): the test, which ends the scalar loop.
exhaust_test ==
    /\ ~aborted
    /\ driver.pc = "loop"
    /\ driver.mode = "scalar"
    /\ iterator_eq(iter.it, iter.end)
    /\ driver' = [driver EXCEPT !.pc = "exhausted"]
    /\ UNCHANGED << depositVars, dtor, partition_file, aborted, file_exists, collateVars,
                    iter, readers >>

\* *it or ++it in the body of the scalar loop.
exhaust_scalar ==
    /\ ~aborted
    /\ driver.pc = "loop"
    /\ driver.mode = "scalar"
    /\ iterator_neq(iter.it, iter.end)
    /\ \E it1 \in {deref(iter.it), incr(iter.it)} :
          /\ iter' = [iter EXCEPT !.it = it1]
          /\ aborted' = it1.exit
    /\ UNCHANGED << depositVars, dtor, partition_file, file_exists, collateVars, driver,
                    readers >>

\* it.read(buf, n), and the caller's test of the count returned.
exhaust_read ==
    /\ ~aborted
    /\ driver.pc = "loop"
    /\ driver.mode = "read"
    /\ LET r == read(iter.it, driver.n) IN
          /\ iter' = [iter EXCEPT !.it = r.it]
          /\ aborted' = r.it.exit
          /\ driver' = IF ~r.it.exit /\ Len(r.out) = 0
                        THEN [driver EXCEPT !.pc = "exhausted"]
                        ELSE driver
    /\ UNCHANGED << depositVars, dtor, partition_file, file_exists, collateVars, readers >>

\* ++it on the exhausted iterator.
further_incr ==
    /\ ~aborted
    /\ driver.pc = "exhausted"
    /\ LET it1 == incr(iter.it) IN
          /\ iter' = [iter EXCEPT !.it = it1]
          /\ aborted' = it1.exit
    /\ driver' = [driver EXCEPT !.pc = "after", !.before = iter.it]
    /\ UNCHANGED << depositVars, dtor, partition_file, file_exists, collateVars, readers >>

NextExhaust ==
    \/ exhaust_test
    \/ exhaust_scalar
    \/ exhaust_read
    \/ further_incr

SpecExhaust == InitExhaust /\ [][NextExhaust]_vars

\* The iterator was taken through the whole collection: by the scalar loop,
\* or by read calls that asked for at least one pair.
ConsumedAll == driver.mode = "scalar" \/ driver.n >= 1

\* The state C27 gives an exhausted iterator.
AtEndState(it) ==
    /\ it.file_ptr = nullptr
    /\ it.at_end
    /\ iterator_eq(it, end)
    /\ iterator_neq(it, begin)
    /\ it.pos = Len(Collection)

\* C27: an iterator that has consumed the whole collection, by ++it steps or
\* by read calls until one returned 0, has a null file handle and at_end set,
\* equals end(), differs from a fresh begin(), and has pair_index at the
\* number of pairs of the collection; and a further ++it on it neither exits
\* the process nor changes it.
C27_ExhaustedEqualsEnd ==
    ConsumedAll =>
        /\ driver.pc = "exhausted" => AtEndState(iter.it)
        /\ driver.pc = "after" => (~aborted /\ iter.it = driver.before)

\* What the iterator does keep: exhausted either way it is in the state of
\* C27, and after the scalar loop a further ++it changes nothing.
ExhaustedState ==
    ConsumedAll =>
        /\ driver.pc = "exhausted" => AtEndState(iter.it)
        /\ (driver.pc = "after" /\ driver.mode = "scalar") =>
              (~aborted /\ iter.it = driver.before)

\* After read has exhausted the iterator a further ++it never leaves it as it
\* was: it opens partition file 0 again, and exits the process or goes on
\* with at_end still set.
FurtherIncrAfterReadChanges ==
    (driver.pc = "after" /\ driver.mode = "read") =>
        \/ aborted
        \/ /\ iter.it.file_ptr # nullptr
           /\ iter.it.at_end
           /\ iter.it.pos > driver.before.pos

\* A further ++it on an iterator that read(buf, 2) had exhausted went into
\* partition file 0 again without an exit.
FurtherIncrReopens ==
    /\ driver.pc = "after"
    /\ driver.mode = "read"
    /\ driver.n = 2
    /\ ~aborted
    /\ iter.it.file_ptr # nullptr
    /\ iter.it.pos > Len(Collection)

\* ========================================================= late deposits
\* SpecAnyOrder: producers that call get_buffer and return_buffer at any
\* moment, a close_deposit_stream that is invoked at any moment, also while
\* producers hold buffers, and ~Key_Value_Collator invoked at any moment at
\* which no close_deposit_stream is running.

\* A producer calls get_buffer, whatever the state of the stream.
get_buffer_call_any(i) ==
    /\ ~aborted
    /\ Alive
    /\ pc[i] = "idle"
    /\ deposits[i] < MaxDeposits
    /\ pc' = [pc EXCEPT ![i] = "get_buffer"]
    /\ UNCHANGED laterVars
    /\ UNCHANGED << buf_count, bufs, poolVars, buf_p, success, deposits, m_idx,
                    partVars, closeVars, returned, aborted >>

\* close_deposit_stream is invoked, whatever the producers are doing:
\* stream_incoming = false;
close_call_any ==
    /\ ~aborted
    /\ Alive
    /\ cpc \in {"open", "closed"}
    /\ stream_incoming' = FALSE
    /\ cpc' = "joinable_check"
    /\ UNCHANGED laterVars
    /\ UNCHANGED << buf_count, bufs, poolVars, pc, buf_p, success, deposits, m_idx,
                    partVars, joinable, c_pid, returned, aborted >>

NextAnyOrder ==
    \/ \E i \in Producers : get_buffer_call_any(i)
    \/ \E i \in Producers : Alive /\ get_buffer(i)
    \/ \E i \in Producers : Alive /\ fill(i)
    \/ \E i \in Producers : Alive /\ return_buffer(i)
    \/ Alive /\ map
    \/ close_call_any
    \/ Alive /\ close_deposit_stream_running
    \/ destructor

SpecAnyOrder == Init /\ [][NextAnyOrder]_vars

\* A pair was in a buffer passed to return_buffer more often than it is in
\* the partition files.
NotOnDisk == \E kv \in DepositPairs : returned[kv] # Occ(OnDisk, kv)

\* C28: whatever the order of the get_buffer, return_buffer and
\* close_deposit_stream calls, a destructor that gets past its check finds
\* close_deposit_stream returned and every pair of every buffer passed to
\* return_buffer in its partition file, written before the close returned
\* (the files do not change after it); and a destructor invoked while a pair
\* of a returned buffer is not in the files exits the process.
C28_NoSilentLoss ==
    /\ [](dtor.pc \in {"release", "remove", "destructed"} =>
            /\ cpc = "closed"
            /\ ~NotOnDisk
            /\ InMemory = <<>>
            /\ \A b \in 1 .. buf_count : bufs[b] = <<>>)
    /\ [][(Alive /\ ~Alive' /\ NotOnDisk) => (aborted' /\ dtor'.pc = "exit")]_vars
    /\ [][cpc = "closed" => partition_file' = partition_file]_vars

\* The destructor exited the process after close_deposit_stream had returned:
\* a buffer with a pair was returned too late for the mapper, and the pair is
\* not in the files, which hold other pairs.
C28_Witness ==
    /\ dtor.pc = "exit"
    /\ cpc = "closed"
    /\ pool["full"] # <<>>
    /\ NotOnDisk
    /\ OnDisk # <<>>

\* A producer ends a return_buffer of a buffer with pairs while
\* close_deposit_stream waits for the mapper, which is still running.
ReturnDuringClose ==
    /\ cpc = "join"
    /\ pc[Mapper] # "exited"
    /\ \E i \in Producers : pc[i] = "push_unlock" /\ bufs[buf_p[i]] # <<>>

\* The destructor ended after both producers made their deposits, of three
\* pairs or more.
DestructedAfterDeposits ==
    /\ dtor.pc = "destructed"
    /\ \A i \in Producers : deposits[i] = 1
    /\ Len(OnDisk) >= 3
====
